---- MODULE Spec2Model ----
(***************************************************************************)
(* A model of server.js: the analysis store and its HTTP endpoints, the    *)
(* Heuristic Analyzer (performAIAnalysis), the Concept Extractor           *)
(* (extractConceptsFromAnalysis) and the Connection Builder.               *)
(*                                                                         *)
(* A JavaScript string is the tuple of its UTF-16 code units, so that      *)
(* length, the regular expressions' character classes and ranges, and      *)
(* toLowerCase are computed on the values the program computes them on.    *)
(* Every string literal of the source is given by its code units, with the *)
(* literal in the comment above it.                                        *)
(***************************************************************************)
EXTENDS Integers, Sequences, FiniteSets, TLC

VARIABLES
  store,    \* the analyses table: id -> row, for the ids that have a row
  nextId,   \* the id the next INSERT is given (AUTOINCREMENT / SERIAL)
  now,      \* the store clock, CURRENT_TIMESTAMP, in ticks
  call,     \* the request (or function call) handled last
  resp      \* its response (or return value)

vars == <<store, nextId, now, call, resp>>

NoResp == [op |-> "none"]

EmptyStore == <<>>

----------------------------------------------------------------------------
(* Strings *)

Min(S) == CHOOSE x \in S : \A y \in S : x <= y

Max(S) == CHOOSE x \in S : \A y \in S : y <= x

\* Body of a value the code computes once and keeps in a local constant.
With(v, Body(_)) == Body(v)

\* Array.prototype.map
Map(s, F(_)) == [k \in 1..Len(s) |-> F(s[k])]

\* The numbers of a set in ascending order.
Ascending(S) ==
  With([x \in S |-> Cardinality({y \in S : y <= x})],
       LAMBDA rank : [k \in 1..Cardinality(S) |-> CHOOSE x \in S : rank[x] = k])

\* Whether pat occurs in t at position i (1-based).
StartsAt(t, pat, i) ==
  /\ i >= 1
  /\ i + Len(pat) - 1 <= Len(t)
  /\ \A k \in 1..Len(pat) : t[i + k - 1] = pat[k]

\* String.prototype.indexOf(pat, from), 1-based; 0 when there is none.
IndexOfFrom(t, pat, from) ==
  With({i \in from..(Len(t) - Len(pat) + 1) : StartsAt(t, pat, i)},
       LAMBDA hits : IF hits = {} THEN 0 ELSE Min(hits))

\* String.prototype.includes
Includes(t, pat) == IndexOfFrom(t, pat, 1) # 0

\* The first position >= from whose code unit satisfies Test, Len(t)+1 if none.
FirstFrom(t, from, Test(_)) ==
  With({i \in from..Len(t) : Test(t[i])},
       LAMBDA hits : IF hits = {} THEN Len(t) + 1 ELSE Min(hits))

\* The regular expressions' \s (ECMAScript WhiteSpace and LineTerminator).
IsSpace(c) ==
  \/ c \in {9, 10, 11, 12, 13, 32, 160, 5760, 8232, 8233, 8239, 8287,
            12288, 65279}
  \/ (c >= 8192 /\ c <= 8202)

\* String.prototype.trim
Trim(t) ==
  With({i \in 1..Len(t) : ~IsSpace(t[i])},
       LAMBDA keep : IF keep = {} THEN <<>> ELSE SubSeq(t, Min(keep), Max(keep)))

\* replace(/[set]/g, ''): the code units of t that are not in set.
RemoveChars(t, set) == SelectSeq(t, LAMBDA c : c \notin set)

\* Array.prototype.slice(0, n)
Slice(s, n) == SubSeq(s, 1, IF Len(s) < n THEN Len(s) ELSE n)

RECURSIVE Concat(_)
\* The concatenation of a sequence of strings.
Concat(ss) == IF ss = <<>> THEN <<>> ELSE Head(ss) \o Concat(Tail(ss))

RECURSIVE Join(_, _)
\* Array.prototype.join(sep)
Join(ss, sep) ==
  IF ss = <<>> THEN <<>>
  ELSE IF Len(ss) = 1 THEN ss[1]
  ELSE ss[1] \o sep \o Join(Tail(ss), sep)

----------------------------------------------------------------------------
(* Concept Extractor *)

\* the character class [介紹|討論|分析|探討|提到|說明|建議|方法|策略|原則|特點|優勢|重要|關鍵|核心|主要]:
\* inside [...] the bars are members and every character stands alone
IndicatorChars ==
  {124, 20027, 20171, 20778, 20998, 21040, 21063, 21218, 21407, 24314,
   24515, 25506, 25552, 26041, 26126, 26512, 26680, 27861, 29305, 30053,
   31574, 32057, 35201, 35342, 35498, 35542, 35696, 37325, 37749, 38364,
   40670}

\* [。！？]
SentenceEnd ==
  {12290, 65281, 65311}

\* "##"
HashHash ==
  <<35, 35>>

\* "智能摘要"
WordSmartSummary ==
  <<26234, 33021, 25688, 35201>>

\* "核心關鍵詞"
WordCoreKeywords ==
  <<26680, 24515, 38364, 37749, 35422>>

\* "處理文件"
WordProcessedFiles ==
  <<34389, 29702, 25991, 20214>>

\* "文件統計"
WordFileStats ==
  <<25991, 20214, 32113, 35336>>

\* "處理結果"
WordProcessResult ==
  <<34389, 29702, 32080, 26524>>

\* ["文件", "處理", "系統", "分析", "內容", "數據", "信息", "結果"]
ConceptStopwords ==
  {<<25991, 20214>>,
   <<34389, 29702>>,
   <<31995, 32113>>,
   <<20998, 26512>>,
   <<20839, 23481>>,
   <<25976, 25818>>,
   <<20449, 24687>>,
   <<32080, 26524>>}

\* "文檔核心內容分析"
FallbackConcept1 ==
  <<25991, 27284, 26680, 24515, 20839, 23481, 20998, 26512>>

\* "重要信息提取"
FallbackConcept2 ==
  <<37325, 35201, 20449, 24687, 25552, 21462>>

\* "知識要點整理"
FallbackConcept3 ==
  <<30693, 35672, 35201, 40670, 25972, 29702>>

\* [\u4e00-\u9fa5A-Za-z]
IsKeywordChar(c) ==
  \/ (c >= 19968 /\ c <= 40869)
  \/ (c >= 65 /\ c <= 90)
  \/ (c >= 97 /\ c <= 122)

\* [^。！？\n]
IsSentenceChar(c) == c \notin SentenceEnd /\ c # 10

\* /##\s*word/ tried at position p: the position after the header, 0 if the
\* header is not at p.  \s* is greedy and backtracks, and no header word
\* starts with white space, so the word must follow the run of white space.
HeaderEndAt(t, word, p) ==
  IF ~StartsAt(t, HashHash, p) THEN 0
  ELSE With(FirstFrom(t, p + 2, LAMBDA c : ~IsSpace(c)),
            LAMBDA q : IF StartsAt(t, word, q) THEN q + Len(word) ELSE 0)

\* t.match(/##\s*word[\s\S]*?(?=##|$)/i): the leftmost header, then lazily up
\* to the next "##" or the end of the string.  from..to is the match,
\* body the position after the header.
SectionMatch(t, word) ==
  With({p \in 1..Len(t) : HeaderEndAt(t, word, p) # 0},
       LAMBDA starts :
         IF starts = {} THEN [found |-> FALSE, from |-> 0, body |-> 0, to |-> 0]
         ELSE With(Min(starts), LAMBDA p :
              With(HeaderEndAt(t, word, p), LAMBDA b :
              With(IndexOfFrom(t, HashHash, b), LAMBDA nxt :
                [found |-> TRUE, from |-> p, body |-> b,
                 to |-> IF nxt = 0 THEN Len(t) ELSE nxt - 1]))))

\* match[0].replace(/##\s*word/i, '').trim(): the match starts with the
\* header, which is therefore the occurrence that replace removes.
SectionContent(t, word) ==
  With(SectionMatch(t, word),
       LAMBDA m : IF m.found THEN Trim(SubSeq(t, m.body, m.to)) ELSE <<>>)

RECURSIVE RemoveSections(_, _)
\* t.replace(/##\s*word[\s\S]*?(?=##|$)/gi, '')
RemoveSections(t, word) ==
  With(SectionMatch(t, word),
       LAMBDA m :
         IF ~m.found THEN t
         ELSE SubSeq(t, 1, m.from - 1)
                \o RemoveSections(SubSeq(t, m.to + 1, Len(t)), word))

\* The runs of sentence characters of t, each with the position that closes
\* it: a run starts at the start of t and after every character that is no
\* sentence character, and to is the first such character from there on,
\* Len(t) + 1 if there is none.
SentenceRuns(t) ==
  Map(Ascending({s \in 1..Len(t) : s = 1 \/ ~IsSentenceChar(t[s - 1])}),
      LAMBDA s : [from |-> s, to |-> FirstFrom(t, s, LAMBDA c : ~IsSentenceChar(c))])

\* t.match(/[^。！？\n]*[IndicatorChars][^。！？\n]*[。！？]/g): a run of
\* sentence characters that holds an indicator character and is closed by a
\* sentence end; a run closed by a line break or by the end of the string, or
\* without an indicator, matches from none of its positions.
MatchImportant(t) ==
  Map(SelectSeq(SentenceRuns(t),
                LAMBDA run : /\ run.to <= Len(t)
                             /\ t[run.to] \in SentenceEnd
                             /\ \E k \in run.from..(run.to - 1) : t[k] \in IndicatorChars),
      LAMBDA run : SubSeq(t, run.from, run.to))

\* The start of the run of keyword characters that holds position p.
KeywordRunStart(t, p) == Max({0} \cup {q \in 1..p : ~IsKeywordChar(t[q])}) + 1

\* The length of the piece at p of a run of keyword characters: 15 at most.
KeywordPiece(t, p) == Min({15, FirstFrom(t, p, LAMBDA c : ~IsKeywordChar(c)) - p})

\* t.match(/[一-龥A-Za-z]{2,15}/g): a run of keyword characters is
\* cut into pieces of 15, and a last piece of one is dropped.
MatchKeywords(t) ==
  Map(Ascending({p \in 1..Len(t) :
                   /\ IsKeywordChar(t[p])
                   /\ (p - KeywordRunStart(t, p)) % 15 = 0
                   /\ KeywordPiece(t, p) >= 2}),
      LAMBDA p : SubSeq(t, p, p + KeywordPiece(t, p) - 1))

\* t.match(/[^。！？\n]{10,50}[。！？]/g): of a run of 10 or more sentence
\* characters closed by a sentence end, the last 50 at most.
MatchGeneric(t) ==
  Map(SelectSeq(SentenceRuns(t),
                LAMBDA run : /\ run.to <= Len(t)
                             /\ t[run.to] \in SentenceEnd
                             /\ run.to - run.from >= 10),
      LAMBDA run : SubSeq(t, run.to - Min({50, run.to - run.from}), run.to))

Concept(text, importance, source) ==
  [concept |-> text, importance |-> importance, source |-> source]

\* lines 485-499: the first 3 important sentences, cleaned, those kept whose
\* length is over 8 and under 60
SmartSummaryConcepts(smartSummaryContent) ==
  Map(SelectSeq(Map(Slice(MatchImportant(smartSummaryContent), 3),
                    LAMBDA sentence :
                      Trim(RemoveChars(sentence, SentenceEnd \cup {45, 42}))),
                LAMBDA clean : Len(clean) > 8 /\ Len(clean) < 60),
      LAMBDA clean : Concept(clean, "high", "smart_summary"))

\* lines 502-515: the first 4 keywords, those kept that are no stopword
KeywordConcepts(keywordsContent) ==
  Map(SelectSeq(Slice(MatchKeywords(keywordsContent), 4),
                LAMBDA keyword : keyword \notin ConceptStopwords),
      LAMBDA keyword : Concept(keyword, "medium", "keywords"))

\* lines 518-539: the summary without its file sections, the first 3 generic
\* sentences, cleaned, those kept whose length is over 8
FilteredConcepts(analysisText) ==
  Map(SelectSeq(Map(Slice(MatchGeneric(
                            RemoveSections(
                              RemoveSections(
                                RemoveSections(analysisText, WordProcessedFiles),
                                WordFileStats),
                              WordProcessResult)), 3),
                    LAMBDA sentence :
                      Trim(RemoveChars(sentence, SentenceEnd \cup {45, 42, 35}))),
                LAMBDA clean : Len(clean) > 8),
      LAMBDA clean : Concept(clean, "medium", "filtered_analysis"))

\* The fallback concepts with the first two exchanged.
FallbackConceptsReordered ==
  <<Concept(FallbackConcept2, "medium", "fallback"),
    Concept(FallbackConcept1, "high", "fallback"),
    Concept(FallbackConcept3, "medium", "fallback")>>

\* lines 541-549
FallbackConcepts ==
  <<Concept(FallbackConcept1, "high", "fallback"),
    Concept(FallbackConcept2, "medium", "fallback"),
    Concept(FallbackConcept3, "medium", "fallback")>>

\* extractConceptsFromAnalysis without the slice(0, 5) of line 552.
extractConceptsUntruncated(analysisText, contentText) ==
  With(SmartSummaryConcepts(SectionContent(analysisText, WordSmartSummary))
         \o KeywordConcepts(SectionContent(analysisText, WordCoreKeywords)),
       LAMBDA fromSections :
         With(IF fromSections # <<>> THEN fromSections
              ELSE FilteredConcepts(analysisText),
              LAMBDA concepts :
                IF concepts = <<>> THEN FallbackConcepts ELSE concepts))

\* lines 463-553
extractConceptsFromAnalysis(analysisText, contentText) ==
  With(SmartSummaryConcepts(SectionContent(analysisText, WordSmartSummary))
         \o KeywordConcepts(SectionContent(analysisText, WordCoreKeywords)),
       LAMBDA fromSections :
         With(IF fromSections # <<>> THEN fromSections
              ELSE FilteredConcepts(analysisText),
              LAMBDA concepts :
                IF concepts = <<>> THEN FallbackConcepts ELSE Slice(concepts, 5)))

----------------------------------------------------------------------------
(* Heuristic Analyzer *)

\* "# AI分析報告\n\n## 📁 處理文件\n"
ReportHead ==
  <<35, 32, 65, 73, 20998, 26512, 22577, 21578, 10, 10, 35, 35, 32, 55357,
    56513, 32, 34389, 29702, 25991, 20214, 10>>

\* "\n\n## 📊 文件統計\n- 文件數量: "
ReportStats ==
  <<10, 10, 35, 35, 32, 55357, 56522, 32, 25991, 20214, 32113, 35336, 10, 45,
    32, 25991, 20214, 25976, 37327, 58, 32>>

\* " 個\n- 總字符數: "
ReportChars ==
  <<32, 20491, 10, 45, 32, 32317, 23383, 31526, 25976, 58, 32>>

\* "\n- 分析模型: Facebook BART (免費AI模型)\n\n## 🎯 智能摘要\n"
ReportSmartSummary ==
  <<10, 45, 32, 20998, 26512, 27169, 22411, 58, 32, 70, 97, 99, 101, 98, 111,
    111, 107, 32, 66, 65, 82, 84, 32, 40, 20813, 36027, 65, 73, 27169, 22411,
    41, 10, 10, 35, 35, 32, 55356, 57263, 32, 26234, 33021, 25688, 35201, 10>>

\* "\n\n## 🔍 關鍵重點分析\n"
ReportKeyPoints ==
  <<10, 10, 35, 35, 32, 55357, 56589, 32, 38364, 37749, 37325, 40670, 20998,
    26512, 10>>

\* "\n\n## 🏷️ 核心關鍵詞\n"
ReportKeywords ==
  <<10, 10, 35, 35, 32, 55356, 57335, 65039, 32, 26680, 24515, 38364, 37749,
    35422, 10>>

\* "\n\n## 📈 內容分類\n"
ReportCategories ==
  <<10, 10, 35, 35, 32, 55357, 56520, 32, 20839, 23481, 20998, 39006, 10>>

\* "\n\n## 💡 行動建議\n"
ReportActions ==
  <<10, 10, 35, 35, 32, 55357, 56481, 32, 34892, 21205, 24314, 35696, 10>>

\* "\n\n## 🔗 相關性分析\n"
ReportRelations ==
  <<10, 10, 35, 35, 32, 55357, 56599, 32, 30456, 38364, 24615, 20998, 26512,
    10>>

\* "\n\n---\n*🤖 本報告由 Facebook BART AI模型生成 | 生成時間: "
ReportFooter ==
  <<10, 10, 45, 45, 45, 10, 42, 55358, 56598, 32, 26412, 22577, 21578, 30001,
    32, 70, 97, 99, 101, 98, 111, 111, 107, 32, 66, 65, 82, 84, 32, 65, 73,
    27169, 22411, 29983, 25104, 32, 124, 32, 29983, 25104, 26178, 38291, 58,
    32>>

\* "*"
ReportEnd ==
  <<42>>

\* "..."
Ellipsis ==
  <<46, 46, 46>>

\* "無法生成摘要"
NoSummary ==
  <<28961, 27861, 29983, 25104, 25688, 35201>>

\* "文件包含重要信息，建議詳細閱讀原文。"
DefaultLocalSummary ==
  <<25991, 20214, 21253, 21547, 37325, 35201, 20449, 24687, 65292, 24314,
    35696, 35443, 32048, 38321, 35712, 21407, 25991, 12290>>

\* "。"
IdeographicStop ==
  <<12290>>

\* " • "
KeywordSeparator ==
  <<32, 8226, 32>>

\* "- "
ListItemPrefix ==
  <<45, 32>>

\* "\n"
NewLine ==
  <<10>>

\* "• 文件內容豐富，包含大量詳細信息"
PointRich ==
  <<8226, 32, 25991, 20214, 20839, 23481, 35920, 23500, 65292, 21253, 21547,
    22823, 37327, 35443, 32048, 20449, 24687>>

\* "report"
WordReport ==
  <<114, 101, 112, 111, 114, 116>>

\* "• 包含報告性質的文件，建議重點關注結論部分"
PointReport ==
  <<8226, 32, 21253, 21547, 22577, 21578, 24615, 36074, 30340, 25991, 20214,
    65292, 24314, 35696, 37325, 40670, 38364, 27880, 32080, 35542, 37096,
    20998>>

\* "• 多文件分析（"
PointMultiA ==
  <<8226, 32, 22810, 25991, 20214, 20998, 26512, 65288>>

\* "個文件），內容可能存在關聯性"
PointMultiB ==
  <<20491, 25991, 20214, 65289, 65292, 20839, 23481, 21487, 33021, 23384,
    22312, 38364, 32879, 24615>>

\* "• 包含"
PointImagesA ==
  <<8226, 32, 21253, 21547>>

\* "個圖片文件，可能需要視覺內容分析"
PointImagesB ==
  <<20491, 22294, 29255, 25991, 20214, 65292, 21487, 33021, 38656, 35201,
    35222, 35258, 20839, 23481, 20998, 26512>>

\* "重要"
WordImportant ==
  <<37325, 35201>>

\* "關鍵"
WordKey ==
  <<38364, 37749>>

\* "核心"
WordCore ==
  <<26680, 24515>>

\* "• 文件中明確標示了重要信息，建議優先處理"
PointMarked ==
  <<8226, 32, 25991, 20214, 20013, 26126, 30906, 27161, 31034, 20102, 37325,
    35201, 20449, 24687, 65292, 24314, 35696, 20778, 20808, 34389, 29702>>

\* "• 建議詳細閱讀文件內容以獲取更多信息"
PointDefault ==
  <<8226, 32, 24314, 35696, 35443, 32048, 38321, 35712, 25991, 20214, 20839,
    23481, 20197, 29554, 21462, 26356, 22810, 20449, 24687>>

\* "📊 數據分析類"
CategoryData ==
  <<55357, 56522, 32, 25976, 25818, 20998, 26512, 39006>>

\* "📋 規劃策略類"
CategoryPlan ==
  <<55357, 56523, 32, 35215, 21123, 31574, 30053, 39006>>

\* "💻 技術文檔類"
CategoryTech ==
  <<55357, 56507, 32, 25216, 34899, 25991, 27284, 39006>>

\* "📝 會議記錄類"
CategoryMeeting ==
  <<55357, 56541, 32, 26371, 35696, 35352, 37636, 39006>>

\* "🖼️ 視覺資料類"
CategoryVisual ==
  <<55357, 56764, 65039, 32, 35222, 35258, 36039, 26009, 39006>>

\* "📄 一般文檔資料"
CategoryDefault ==
  <<55357, 56516, 32, 19968, 33324, 25991, 27284, 36039, 26009>>

\* " | "
CategorySeparator ==
  <<32, 124, 32>>

\* "🔍 深入分析核心概念和關鍵信息"
Action1 ==
  <<55357, 56589, 32, 28145, 20837, 20998, 26512, 26680, 24515, 27010, 24565,
    21644, 38364, 37749, 20449, 24687>>

\* "📚 建立知識架構，整理重點資訊"
Action2 ==
  <<55357, 56538, 32, 24314, 31435, 30693, 35672, 26550, 27083, 65292, 25972,
    29702, 37325, 40670, 36039, 35338>>

\* "🔗 分析文件間的關聯性和依賴關係"
Action3 ==
  <<55357, 56599, 32, 20998, 26512, 25991, 20214, 38291, 30340, 38364, 32879,
    24615, 21644, 20381, 36084, 38364, 20418>>

\* "📋 制定後續行動計劃和執行步驟"
Action4 ==
  <<55357, 56523, 32, 21046, 23450, 24460, 32396, 34892, 21205, 35336, 21123,
    21644, 22519, 34892, 27493, 39519>>

\* "🔄 比較多個文件的異同點"
ActionCompare ==
  <<55357, 56580, 32, 27604, 36611, 22810, 20491, 25991, 20214, 30340, 30064,
    21516, 40670>>

\* "單一文件分析，無關聯性比較"
RelationSingle ==
  <<21934, 19968, 25991, 20214, 20998, 26512, 65292, 28961, 38364, 32879,
    24615, 27604, 36611>>

\* "檢測到 "
RelationA ==
  <<27298, 28204, 21040, 32>>

\* " 種文件類型，文件間可能存在格式互補性"
RelationB ==
  <<32, 31278, 25991, 20214, 39006, 22411, 65292, 25991, 20214, 38291, 21487,
    33021, 23384, 22312, 26684, 24335, 20114, 35036, 24615>>

\* ["的", "是", "在", "和", "有", "了", "也", "都", "就", "要", "可以", "這", "一個", "我們", "the", "is", "and", "or", "but", "in", "on", "at", "to", "for", "of", "with", "by"]
StopWords ==
  {<<30340>>,
   <<26159>>,
   <<22312>>,
   <<21644>>,
   <<26377>>,
   <<20102>>,
   <<20063>>,
   <<37117>>,
   <<23601>>,
   <<35201>>,
   <<21487, 20197>>,
   <<36889>>,
   <<19968, 20491>>,
   <<25105, 20497>>,
   <<116, 104, 101>>,
   <<105, 115>>,
   <<97, 110, 100>>,
   <<111, 114>>,
   <<98, 117, 116>>,
   <<105, 110>>,
   <<111, 110>>,
   <<97, 116>>,
   <<116, 111>>,
   <<102, 111, 114>>,
   <<111, 102>>,
   <<119, 105, 116, 104>>,
   <<98, 121>>}

\* /報告|分析|統計|數據/
DataWords ==
  {<<22577, 21578>>,
   <<20998, 26512>>,
   <<32113, 35336>>,
   <<25976, 25818>>}

\* /計劃|方案|策略|目標/
PlanWords ==
  {<<35336, 21123>>,
   <<26041, 26696>>,
   <<31574, 30053>>,
   <<30446, 27161>>}

\* /技術|開發|系統|程式/
TechWords ==
  {<<25216, 34899>>,
   <<38283, 30332>>,
   <<31995, 32113>>,
   <<31243, 24335>>}

\* /會議|討論|決定|紀錄/
MeetingWords ==
  {<<26371, 35696>>,
   <<35342, 35542>>,
   <<27770, 23450>>,
   <<32000, 37636>>}

\* /\\.(jpg|jpeg|png|gif|bmp|webp)$/i
ImageExtensions ==
  {<<46, 106, 112, 103>>,
   <<46, 106, 112, 101, 103>>,
   <<46, 112, 110, 103>>,
   <<46, 103, 105, 102>>,
   <<46, 98, 109, 112>>,
   <<46, 119, 101, 98, 112>>}

\* /\\.(jpg|jpeg|png|gif)$/i
VisualExtensions ==
  {<<46, 106, 112, 103>>,
   <<46, 106, 112, 101, 103>>,
   <<46, 112, 110, 103>>,
   <<46, 103, 105, 102>>}

\* maxTextLength
MaxTextLength == 2000

\* String.prototype.toLowerCase: of the letters that have a lower case, the
\* texts of this model hold A-Z only.
toLowerCase(t) == [i \in 1..Len(t) |-> IF t[i] >= 65 /\ t[i] <= 90 THEN t[i] + 32 ELSE t[i]]

\* String.prototype.endsWith
EndsWith(t, suffix) == StartsAt(t, suffix, Len(t) - Len(suffix) + 1)

\* t.split(/[set]/): the pieces between the separators, the empty ones too.
SplitOn(t, set) ==
  Map(Ascending({1} \cup {e + 1 : e \in {i \in 1..Len(t) : t[i] \in set}}),
      LAMBDA s : SubSeq(t, s, FirstFrom(t, s, LAMBDA c : c \in set) - 1))

\* The non-empty pieces of t.split(/\s+/).
Words(t) ==
  Map(Ascending({s \in 1..Len(t) : ~IsSpace(t[s]) /\ (s = 1 \/ IsSpace(t[s - 1]))}),
      LAMBDA s : SubSeq(t, s, FirstFrom(t, s, IsSpace) - 1))

\* Whether s[i] comes before s[j] under sort((a, b) => Key(b) - Key(a)),
\* which is stable: larger keys first, equal keys in their former order.
SortedBefore(s, Key(_), i, j) ==
  Key(s[i]) > Key(s[j]) \/ (Key(s[i]) = Key(s[j]) /\ i < j)

\* The place of s[i] in the sorted array.
SortedPlace(s, Key(_), i) ==
  1 + Cardinality({j \in 1..Len(s) : SortedBefore(s, Key, j, i)})

\* Array.prototype.sort((a, b) => Key(b) - Key(a))
SortDescending(s, Key(_)) ==
  [r \in 1..Len(s) |-> s[CHOOSE i \in 1..Len(s) : SortedPlace(s, Key, i) = r]]

RECURSIVE NumToString(_)
\* The decimal digits of a natural number.
NumToString(n) ==
  IF n < 10 THEN <<48 + n>> ELSE NumToString(n \div 10) \o <<48 + (n % 10)>>

RECURSIVE NumToLocaleString(_)
\* Number.prototype.toLocaleString() (en-US): groups of three digits.
NumToLocaleString(n) ==
  IF n < 1000 THEN NumToString(n)
  ELSE NumToLocaleString(n \div 1000) \o <<44>>
         \o (IF n % 1000 < 10 THEN <<48, 48>>
             ELSE IF n % 1000 < 100 THEN <<48>> ELSE <<>>)
         \o NumToString(n % 1000)

\* new Date().toLocaleString() (en-US) at second s of the first minute of
\* 1/1/2025: "1/1/2025, 12:00:ss AM"
DateToLocaleString(s) ==
  <<49, 47, 49, 47, 50, 48, 50, 53, 44, 32, 49, 50, 58, 48, 48, 58>>
    \o (IF s < 10 THEN <<48>> ELSE <<>>) \o NumToString(s) \o <<32, 65, 77>>

\* The last path segment of a name.
basename(name) ==
  With({i \in 1..Len(name) : name[i] = 47},
       LAMBDA slashes :
         IF slashes = {} THEN name ELSE SubSeq(name, Max(slashes) + 1, Len(name)))

\* path.extname: from the last "." of the last path segment, unless there is
\* none or the segment starts with it.
extname(name) ==
  With(basename(name), LAMBDA base :
  With({i \in 1..Len(base) : base[i] = 46}, LAMBDA dots :
  With(IF dots = {} THEN 0 ELSE Max(dots), LAMBDA d :
    IF d <= 1 \/ base = <<46, 46>> THEN <<>> ELSE SubSeq(base, d, Len(base)))))

\* lines 363-371
generateLocalSummary(text) ==
  With(SelectSeq(SplitOn(text, {46, 33, 63} \cup SentenceEnd),
                 LAMBDA s : Len(Trim(s)) > 10),
       LAMBDA sentences :
         With(Join(Slice(SortDescending(sentences, Len), 3), IdeographicStop),
              LAMBDA topSentences :
                IF topSentences = <<>> THEN DefaultLocalSummary ELSE topSentences))

\* \w
IsWordChar(c) ==
  \/ (c >= 48 /\ c <= 57)
  \/ (c >= 65 /\ c <= 90)
  \/ (c >= 97 /\ c <= 122)
  \/ c = 95

\* a < b for two canonical decimal numerals (no leading zero)
NumeralLess(a, b) ==
  \/ Len(a) < Len(b)
  \/ /\ Len(a) = Len(b)
     /\ \E k \in 1..Len(a) : a[k] < b[k] /\ \A j \in 1..(k - 1) : a[j] = b[j]

\* "4294967295", 2^32 - 1
ArrayIndexLimit ==
  <<52, 50, 57, 52, 57, 54, 55, 50, 57, 53>>

\* Whether a property key is an array index: the canonical decimal form of an
\* integer below 2^32 - 1.  Object.entries lists these keys first, ascending.
IsArrayIndex(w) ==
  /\ Len(w) >= 1
  /\ \A i \in 1..Len(w) : w[i] >= 48 /\ w[i] <= 57
  /\ (Len(w) = 1 \/ w[1] # 48)
  /\ NumeralLess(w, ArrayIndexLimit)

\* line 376: text.toLowerCase().replace(/[^\w\s一-鿿]/g, ' ')
CleanForKeywords(text) ==
  Map(toLowerCase(text),
      LAMBDA c : IF IsWordChar(c) \/ IsSpace(c) \/ (c >= 19968 /\ c <= 40959)
                 THEN c ELSE 32)

\* lines 381-384: wordCount[word], the times the word occurs
WordCount(words, w) == Cardinality({i \in 1..Len(words) : words[i] = w})

\* The place of the key words[i] in Object.entries(wordCount): the index keys
\* come first, ascending, then the other keys in the order of their insertion.
EntryPlace(words, firsts, indexKeys, i) ==
  IF i \in indexKeys
  THEN 1 + Cardinality({j \in indexKeys : NumeralLess(words[j], words[i])})
  ELSE Cardinality(indexKeys) + 1 + Cardinality({j \in firsts \ indexKeys : j < i})

\* line 386: Object.entries(wordCount) for the words counted in their order;
\* firsts are the positions where a word occurs first.
WordCountEntries(words) ==
  With({i \in 1..Len(words) : \A j \in 1..(i - 1) : words[j] # words[i]},
       LAMBDA firsts :
         With({i \in firsts : IsArrayIndex(words[i])},
              LAMBDA indexKeys :
                [r \in 1..Cardinality(firsts) |->
                   With(CHOOSE x \in firsts : EntryPlace(words, firsts, indexKeys, x) = r,
                        LAMBDA i : <<words[i], WordCount(words, words[i])>>)]))

\* lines 374-391
extractKeywords(text) ==
  Map(Slice(SortDescending(
              WordCountEntries(
                SelectSeq(Words(CleanForKeywords(text)),
                          LAMBDA w : Len(w) > 2 /\ w \notin StopWords)),
              LAMBDA e : e[2]),
            20),
      LAMBDA e : e[1])

\* name matches /\.(ext|...)$/i
HasExtension(name, extensions) == \E e \in extensions : EndsWith(toLowerCase(name), e)

\* lines 395-417: the points pushed, in their order
KeyPoints(text, fileNames, imageFiles) ==
  (IF Len(text) > 1000 THEN <<PointRich>> ELSE <<>>)
  \o (IF \E i \in 1..Len(fileNames) : Includes(toLowerCase(fileNames[i]), WordReport)
      THEN <<PointReport>> ELSE <<>>)
  \o (IF Len(fileNames) > 1
      THEN <<PointMultiA \o NumToString(Len(fileNames)) \o PointMultiB>> ELSE <<>>)
  \o (IF Len(imageFiles) > 0
      THEN <<PointImagesA \o NumToString(Len(imageFiles)) \o PointImagesB>> ELSE <<>>)
  \o (IF Includes(text, WordImportant) \/ Includes(text, WordKey) \/ Includes(text, WordCore)
      THEN <<PointMarked>> ELSE <<>>)

\* lines 394-419
generateKeyPoints(text, fileNames) ==
  With(KeyPoints(text, fileNames,
                 SelectSeq(fileNames, LAMBDA n : HasExtension(n, ImageExtensions))),
       LAMBDA points : IF Len(points) > 0 THEN Join(points, NewLine) ELSE PointDefault)

\* text.match(/a|b|c|d/)
MatchesAny(text, wordSet) == \E w \in wordSet : Includes(text, w)

\* lines 422-432
categorizeContent(text, fileNames) ==
  With((IF MatchesAny(text, DataWords) THEN <<CategoryData>> ELSE <<>>)
       \o (IF MatchesAny(text, PlanWords) THEN <<CategoryPlan>> ELSE <<>>)
       \o (IF MatchesAny(text, TechWords) THEN <<CategoryTech>> ELSE <<>>)
       \o (IF MatchesAny(text, MeetingWords) THEN <<CategoryMeeting>> ELSE <<>>)
       \o (IF \E i \in 1..Len(fileNames) : HasExtension(fileNames[i], VisualExtensions)
           THEN <<CategoryVisual>> ELSE <<>>),
       LAMBDA categories :
         IF Len(categories) > 0 THEN Join(categories, CategorySeparator)
         ELSE CategoryDefault)

\* lines 435-448
generateActionItems(text, fileNames) ==
  Join(<<Action1, Action2, Action3, Action4>>
         \o (IF Len(fileNames) > 1 THEN <<ActionCompare>> ELSE <<>>),
       NewLine)

\* lines 451-460
analyzeRelationships(fileNames) ==
  IF Len(fileNames) = 1 THEN RelationSingle
  ELSE RelationA
         \o NumToString(Cardinality({toLowerCase(extname(fileNames[i])) :
                                       i \in 1..Len(fileNames)}))
         \o RelationB

\* The outcome of hf.summarization: it throws, or answers with a summary_text.
HfFails == [ok |-> FALSE, summary_text |-> <<>>]
HfAnswers(t) == [ok |-> TRUE, summary_text |-> t]

\* lines 291-294
textToAnalyze(combinedText) ==
  IF Len(combinedText) > MaxTextLength
  THEN SubSeq(combinedText, 1, MaxTextLength) \o Ellipsis
  ELSE combinedText

\* lines 300-316: the summary of hf.summarization, the local one when it
\* throws
aiSummary(combinedText, hf) ==
  IF hf.ok
  THEN (IF hf.summary_text = <<>> THEN NoSummary ELSE hf.summary_text)
  ELSE generateLocalSummary(textToAnalyze(combinedText))

\* "# AI分析報告（備用模式）\n\n## 處理文件\n"
FallbackHead ==
  <<35, 32, 65, 73, 20998, 26512, 22577, 21578, 65288, 20633, 29992, 27169,
    24335, 65289, 10, 10, 35, 35, 32, 34389, 29702, 25991, 20214, 10>>

\* "\n\n## 基本統計\n- 文件數量: "
FallbackStats ==
  <<10, 10, 35, 35, 32, 22522, 26412, 32113, 35336, 10, 45, 32, 25991, 20214,
    25976, 37327, 58, 32>>

\* "\n- 內容長度: "
FallbackLength ==
  <<10, 45, 32, 20839, 23481, 38263, 24230, 58, 32>>

\* " 字符\n- 估計閱讀時間: "
FallbackMinutes ==
  <<32, 23383, 31526, 10, 45, 32, 20272, 35336, 38321, 35712, 26178, 38291,
    58, 32>>

\* " 分鐘\n\n## 簡要分析\n基於本地算法的文件分析結果。建議手動審閱文件內容以獲取更準確的信息。\n\n*系統提示：AI服務暫時不可用，使用本地分析模式*"
FallbackTail ==
  <<32, 20998, 37912, 10, 10, 35, 35, 32, 31777, 35201, 20998, 26512, 10,
    22522, 26044, 26412, 22320, 31639, 27861, 30340, 25991, 20214, 20998,
    26512, 32080, 26524, 12290, 24314, 35696, 25163, 21205, 23529, 38321,
    25991, 20214, 20839, 23481, 20197, 29554, 21462, 26356, 28310, 30906,
    30340, 20449, 24687, 12290, 10, 10, 42, 31995, 32113, 25552, 31034,
    65306, 65, 73, 26381, 21209, 26283, 26178, 19981, 21487, 29992, 65292,
    20351, 29992, 26412, 22320, 20998, 26512, 27169, 24335, 42>>

\* lines 667-682: the report of the catch of line 356
generateFallbackAnalysis(text, fileNames) ==
  FallbackHead
    \o Join(Map(fileNames, LAMBDA name : ListItemPrefix \o name), NewLine)
    \o FallbackStats \o NumToString(Len(fileNames))
    \o FallbackLength \o NumToString(Len(text))
    \o FallbackMinutes \o NumToString((Len(text) + 999) \div 1000)
    \o FallbackTail

\* An analyzer whose outer catch takes the failure of the summarization.
performAIAnalysisOuterCatch(combinedText, fileNames, hf, clock) ==
  IF hf.ok
  THEN ReportHead
         \o Join(Map(fileNames, LAMBDA name : ListItemPrefix \o name), NewLine)
         \o ReportStats \o NumToString(Len(fileNames))
         \o ReportChars \o NumToLocaleString(Len(combinedText))
         \o ReportSmartSummary \o aiSummary(combinedText, hf)
         \o ReportKeyPoints \o generateKeyPoints(combinedText, fileNames)
         \o ReportKeywords \o Join(Slice(extractKeywords(combinedText), 15), KeywordSeparator)
         \o ReportCategories \o categorizeContent(combinedText, fileNames)
         \o ReportActions \o generateActionItems(combinedText, fileNames)
         \o ReportRelations \o analyzeRelationships(fileNames)
         \o ReportFooter \o DateToLocaleString(clock)
         \o ReportEnd
  ELSE generateFallbackAnalysis(combinedText, fileNames)

\* lines 288-360; clock is the second new Date() reads. The failure of
\* hf.summarization is taken by the catch of line 313; the statements after
\* it work on strings and arrays of strings and throw nothing, so that the
\* catch of line 356 is not entered.
performAIAnalysis(combinedText, fileNames, hf, clock) ==
  ReportHead
    \o Join(Map(fileNames, LAMBDA name : ListItemPrefix \o name), NewLine)
    \o ReportStats \o NumToString(Len(fileNames))
    \o ReportChars \o NumToLocaleString(Len(combinedText))
    \o ReportSmartSummary \o aiSummary(combinedText, hf)
    \o ReportKeyPoints \o generateKeyPoints(combinedText, fileNames)
    \o ReportKeywords \o Join(Slice(extractKeywords(combinedText), 15), KeywordSeparator)
    \o ReportCategories \o categorizeContent(combinedText, fileNames)
    \o ReportActions \o generateActionItems(combinedText, fileNames)
    \o ReportRelations \o analyzeRelationships(fileNames)
    \o ReportFooter \o DateToLocaleString(clock)
    \o ReportEnd

----------------------------------------------------------------------------
(* Text Extractor *)

\* "\\n\\n=== "
DelimiterOpen ==
  <<92, 110, 92, 110, 61, 61, 61, 32>>

\* " ===\\n"
DelimiterClose ==
  <<32, 61, 61, 61, 92, 110>>

\* "[不支援的文件格式: "
UnsupportedOpen ==
  <<91, 19981, 25903, 25588, 30340, 25991, 20214, 26684, 24335, 58, 32>>

\* "[文件解析失敗: "
ParseFailedOpen ==
  <<91, 25991, 20214, 35299, 26512, 22833, 25943, 58, 32>>

\* "]"
BracketClose ==
  <<93>>

\* "沒有收到文件"
ErrNoFiles ==
  <<27794, 26377, 25910, 21040, 25991, 20214>>

\* "數據庫保存失敗"
ErrSaveFailed ==
  <<25976, 25818, 24235, 20445, 23384, 22833, 25943>>

\* "記錄不存在"
ErrNotFound ==
  <<35352, 37636, 19981, 23384, 22312>>

\* "獲取數據失敗"
ErrGetFailed ==
  <<29554, 21462, 25976, 25818, 22833, 25943>>

\* "更新失敗"
ErrUpdateFailed ==
  <<26356, 26032, 22833, 25943>>

\* "刪除失敗"
ErrDeleteFailed ==
  <<21034, 38500, 22833, 25943>>

\* "刪除成功"
MsgDeleted ==
  <<21034, 38500, 25104, 21151>>

\* "找不到分析記錄"
ErrNoAnalysis ==
  <<25214, 19981, 21040, 20998, 26512, 35352, 37636>>

\* "概念提取失敗"
ErrConceptsFailed ==
  <<27010, 24565, 25552, 21462, 22833, 25943>>

\* "連結建立失敗"
ErrConnectionsFailed ==
  <<36899, 32080, 24314, 31435, 22833, 25943>>

\* "請從以下內容中提取3-5個核心概念："
PromptExtract ==
  <<35531, 24478, 20197, 19979, 20839, 23481, 20013, 25552, 21462, 51, 45,
    53, 20491, 26680, 24515, 27010, 24565, 65306>>

\* "概念提取"
NameExtract ==
  <<27010, 24565, 25552, 21462>>

\* "分析概念關聯性："
PromptConnections ==
  <<20998, 26512, 27010, 24565, 38364, 32879, 24615, 65306>>

\* "連結分析"
NameConnections ==
  <<36899, 32080, 20998, 26512>>

\* "未知概念"
UnknownConcept ==
  <<26410, 30693, 27010, 24565>>

\* ", "
TitleSeparator ==
  <<44, 32>>

\* "與"
RelationWith ==
  <<33287>>

\* "在文檔中相互補充，共同構成了完整的知識體系"
RelationComplement ==
  <<22312, 25991, 27284, 20013, 30456, 20114, 35036, 20805, 65292, 20849,
    21516, 27083, 25104, 20102, 23436, 25972, 30340, 30693, 35672, 39636,
    31995>>

\* "是基礎概念，"
RelationBasis ==
  <<26159, 22522, 30990, 27010, 24565, 65292>>

\* "是應用層面的體現"
RelationApplied ==
  <<26159, 25033, 29992, 23652, 38754, 30340, 39636, 29694>>

\* ".txt", ".md": read as they are
ReadExtensions ==
  {<<46, 116, 120, 116>>, <<46, 109, 100>>}

\* ".pdf", ".doc", ".docx", ".xlsx", ".xls", ".html", ".htm": decoded by a
\* library
DecoderExtensions ==
  {<<46, 112, 100, 102>>, <<46, 100, 111, 99>>, <<46, 100, 111, 99, 120>>,
   <<46, 120, 108, 115, 120>>, <<46, 120, 108, 115>>,
   <<46, 104, 116, 109, 108>>, <<46, 104, 116, 109>>}

\* ".png", ".jpg", ".jpeg", ".gif", ".bmp", ".webp": read by OCR
OcrExtensions ==
  {<<46, 112, 110, 103>>, <<46, 106, 112, 103>>, <<46, 106, 112, 101, 103>>,
   <<46, 103, 105, 102>>, <<46, 98, 109, 112>>, <<46, 119, 101, 98, 112>>}

\* "# 圖片OCR文字識別結果\n\n## 圖片信息\n- 文件名稱: "
OcrTextHead ==
  <<35, 32, 22294, 29255, 79, 67, 82, 25991, 23383, 35672, 21029, 32080,
    26524, 10, 10, 35, 35, 32, 22294, 29255, 20449, 24687, 10, 45, 32, 25991,
    20214, 21517, 31281, 58, 32>>

\* "\n- 識別引擎: Tesseract.js (免費OCR)\n- 支援語言: 中文繁體/簡體 + 英文\n\n## 識別出的文字內容\n"
OcrTextEngine ==
  <<10, 45, 32, 35672, 21029, 24341, 25806, 58, 32, 84, 101, 115, 115, 101,
    114, 97, 99, 116, 46, 106, 115, 32, 40, 20813, 36027, 79, 67, 82, 41, 10,
    45, 32, 25903, 25588, 35486, 35328, 58, 32, 20013, 25991, 32321, 39636,
    47, 31777, 39636, 32, 43, 32, 33521, 25991, 10, 10, 35, 35, 32, 35672,
    21029, 20986, 30340, 25991, 23383, 20839, 23481, 10>>

\* "\n\n## 附加信息\n- 文字長度: "
OcrTextLength ==
  <<10, 10, 35, 35, 32, 38468, 21152, 20449, 24687, 10, 45, 32, 25991, 23383,
    38263, 24230, 58, 32>>

\* " 字符\n- 識別狀態: 成功\n- 建議: 如識別結果不準確，請確保圖片清晰且文字對比度良好"
OcrTextTail ==
  <<32, 23383, 31526, 10, 45, 32, 35672, 21029, 29376, 24907, 58, 32, 25104,
    21151, 10, 45, 32, 24314, 35696, 58, 32, 22914, 35672, 21029, 32080,
    26524, 19981, 28310, 30906, 65292, 35531, 30906, 20445, 22294, 29255,
    28165, 26224, 19988, 25991, 23383, 23565, 27604, 24230, 33391, 22909>>

\* "# 圖片OCR識別結果\n\n## 圖片信息  \n- 文件名稱: "
OcrNoneHead ==
  <<35, 32, 22294, 29255, 79, 67, 82, 35672, 21029, 32080, 26524, 10, 10, 35,
    35, 32, 22294, 29255, 20449, 24687, 32, 32, 10, 45, 32, 25991, 20214,
    21517, 31281, 58, 32>>

\* "\n- 識別引擎: Tesseract.js\n\n## 識別狀態\n未檢測到清晰的文字內容，可能原因：\n- 圖片中沒有文字\n- 文字太小或模糊\n- 手寫字體難以識別\n- 特殊字體或藝術字\n\n## 建議\n- 確保圖片清晰\n- 文字與背景對比度要高\n- 避免傾斜或扭曲的文字"
OcrNoneTail ==
  <<10, 45, 32, 35672, 21029, 24341, 25806, 58, 32, 84, 101, 115, 115, 101,
    114, 97, 99, 116, 46, 106, 115, 10, 10, 35, 35, 32, 35672, 21029, 29376,
    24907, 10, 26410, 27298, 28204, 21040, 28165, 26224, 30340, 25991, 23383,
    20839, 23481, 65292, 21487, 33021, 21407, 22240, 65306, 10, 45, 32,
    22294, 29255, 20013, 27794, 26377, 25991, 23383, 10, 45, 32, 25991,
    23383, 22826, 23567, 25110, 27169, 31946, 10, 45, 32, 25163, 23531,
    23383, 39636, 38627, 20197, 35672, 21029, 10, 45, 32, 29305, 27530,
    23383, 39636, 25110, 34269, 34899, 23383, 10, 10, 35, 35, 32, 24314,
    35696, 10, 45, 32, 30906, 20445, 22294, 29255, 28165, 26224, 10, 45, 32,
    25991, 23383, 33287, 32972, 26223, 23565, 27604, 24230, 35201, 39640, 10,
    45, 32, 36991, 20813, 20670, 26012, 25110, 25197, 26354, 30340, 25991,
    23383>>

\* "# 圖片OCR識別失敗\n\n## 圖片信息\n- 文件名稱: "
OcrFailedHead ==
  <<35, 32, 22294, 29255, 79, 67, 82, 35672, 21029, 22833, 25943, 10, 10, 35,
    35, 32, 22294, 29255, 20449, 24687, 10, 45, 32, 25991, 20214, 21517,
    31281, 58, 32>>

\* "\n- 錯誤信息: "
OcrFailedError ==
  <<10, 45, 32, 37679, 35492, 20449, 24687, 58, 32>>

\* "\n\n## 基本信息\n這是一個圖片文件，OCR文字識別功能暫時無法處理此文件。"
OcrFailedTail ==
  <<10, 10, 35, 35, 32, 22522, 26412, 20449, 24687, 10, 36889, 26159, 19968,
    20491, 22294, 29255, 25991, 20214, 65292, 79, 67, 82, 25991, 23383,
    35672, 21029, 21151, 33021, 26283, 26178, 28961, 27861, 34389, 29702,
    27492, 25991, 20214, 12290>>

\* ".epub"
ExtEpub ==
  <<46, 101, 112, 117, 98>>

\* "\\n"
ChapterEnd ==
  <<92, 110>>

\* lines 24-94.  Of an image, text is what the OCR reads, decodes whether the
\* preprocessing and the OCR succeed rather than throw, message the message
\* of the error thrown.
extractTextFromImage(file) ==
  IF ~file.decodes
  THEN OcrFailedHead \o file.originalname \o OcrFailedError \o file.message
         \o OcrFailedTail
  ELSE With(Trim(file.text), LAMBDA extractedText :
         IF Len(extractedText) > 10
         THEN OcrTextHead \o file.originalname \o OcrTextEngine \o extractedText
                \o OcrTextLength \o NumToString(Len(extractedText)) \o OcrTextTail
         ELSE OcrNoneHead \o file.originalname \o OcrNoneTail)

\* lines 212-285 but for ".epub", whose promise EpubOutcomes gives.  An
\* uploaded file is [originalname, text, decodes]: text is what reading or
\* decoding it yields, decodes whether that succeeds rather than throws.
extractTextFromFile(file) ==
  With(toLowerCase(extname(file.originalname)),
       LAMBDA ext :
         IF ext \in ReadExtensions \cup DecoderExtensions
         THEN (IF file.decodes THEN file.text
               ELSE ParseFailedOpen \o file.originalname \o BracketClose)
         ELSE IF ext \in OcrExtensions THEN extractTextFromImage(file)
         ELSE UnsupportedOpen \o ext \o BracketClose)

\* A promise that resolved to a value, one that rejected with an error, and
\* one that never settles.
Resolved(value) == [state |-> "resolved", value |-> value]
Rejected(message) == [state |-> "rejected", message |-> message]
Pending == [state |-> "pending"]

\* The sequences without repetition of members of S: the orders in which
\* some of the callbacks S can have run.
Arrangements(S) ==
  {s \in UNION {[1..k -> S] : k \in 0..Cardinality(S)} :
     \A i, j \in 1..Len(s) : i # j => s[i] # s[j]}

\* lines 253-262: what epubText holds after the callbacks of the chapters
\* done, in their order: the text of every chapter read without an error,
\* each with "\\n" after it.
EpubText(flow, done) ==
  Concat([k \in 1..Len(done) |->
            IF flow[done[k]].err THEN <<>> ELSE flow[done[k]].text \o ChapterEnd])

\* lines 248-267: the promise the ".epub" case returns, which the function
\* does not await.  Of an EPUB, decodes is whether the reader emits ready
\* rather than error, and flow its chapters [text, err].  The promise resolves
\* in the callback of the last chapter, with the chapters whose callbacks
\* ran before it, in the order they ran in.
EpubOutcomes(file) ==
  IF ~file.decodes THEN {Rejected(file.message)}
  ELSE IF file.flow = <<>> THEN {Pending}
  ELSE {Resolved(EpubText(file.flow, earlier \o <<Len(file.flow)>>)) :
          earlier \in Arrangements(1..(Len(file.flow) - 1))}

\* How the promise of extractTextFromFile(file) settles.
ExtractOutcomes(file) ==
  IF toLowerCase(extname(file.originalname)) = ExtEpub
  THEN EpubOutcomes(file)
  ELSE {Resolved(extractTextFromFile(file))}

----------------------------------------------------------------------------
(* Analysis Store and its endpoints *)

\* A JSON object body and a JSON array body of a response.
Object(body) == [json |-> "object", body |-> body]
Array(items) == [json |-> "array", body |-> items]

Failure(error) == Object([success |-> FALSE, error |-> error])

Row(id, analysis_summary, content_text, created_at, updated_at) ==
  [id |-> id, analysis_summary |-> analysis_summary, content_text |-> content_text,
   created_at |-> created_at, updated_at |-> updated_at]

\* An INSERT after which every row carries the time of the insert as its
\* updated_at.
InsertTouching(table, id, analysis_summary, content_text, clock) ==
  [i \in DOMAIN table \cup {id} |->
     IF i = id THEN Row(id, analysis_summary, content_text, clock, clock)
     ELSE [table[i] EXCEPT !.updated_at = clock]]

\* INSERT INTO analyses (analysis_summary, content_text): the id is the next of
\* the sequence, both timestamps default to CURRENT_TIMESTAMP.
Insert(table, id, analysis_summary, content_text, clock) ==
  [i \in DOMAIN table \cup {id} |->
     IF i = id THEN Row(id, analysis_summary, content_text, clock, clock)
     ELSE table[i]]

\* An UPDATE that sets analysis_summary and updated_at only.
UpdateSummaryOnly(table, id, analysis_summary, content_text, clock) ==
  [i \in DOMAIN table |->
     IF i = id
     THEN [table[i] EXCEPT !.analysis_summary = analysis_summary,
                           !.updated_at = clock]
     ELSE table[i]]

\* UPDATE analyses SET analysis_summary, content_text,
\* updated_at = CURRENT_TIMESTAMP WHERE id
Update(table, id, analysis_summary, content_text, clock) ==
  [i \in DOMAIN table |->
     IF i = id
     THEN [table[i] EXCEPT !.analysis_summary = analysis_summary,
                           !.content_text = content_text,
                           !.updated_at = clock]
     ELSE table[i]]

\* DELETE FROM analyses WHERE id
Delete(table, id) == [i \in DOMAIN table \ {id} |-> table[i]]

\* A count of changed rows that is 1 whether the id has a row or not.
ChangesAlwaysOne(table, id) == 1

\* The rows a statement changes (result.changes, result.rowCount).
Changes(table, id) == IF id \in DOMAIN table THEN 1 ELSE 0

\* The orders ORDER BY created_at DESC allows for the rows with the given
\* ids: rows of equal created_at come in any order.
CreatedDescOrders(table, ids, n) ==
  {s \in [1..n -> ids] :
     /\ \A i, j \in 1..n : i # j => s[i] # s[j]
     /\ \A i, j \in 1..n : i < j => table[s[i]].created_at >= table[s[j]].created_at}

\* SELECT ... ORDER BY created_at DESC over the rows with the given ids
OrderedByCreatedDesc(table, ids) ==
  {[k \in 1..Cardinality(ids) |-> table[s[k]]] :
     s \in CreatedDescOrders(table, ids, Cardinality(ids))}

\* SQLite's LIKE compares the ASCII letters without case.
FoldCase(c) == IF c >= 65 /\ c <= 90 THEN c + 32 ELSE c

RECURSIVE LikeFrom(_, _, _, _)
\* Whether pattern p from position i matches text t from position j to its
\* end: % is any run of characters, _ any one character.
LikeFrom(p, i, t, j) ==
  IF i > Len(p) THEN j > Len(t)
  ELSE IF p[i] = 37 THEN \E k \in j..(Len(t) + 1) : LikeFrom(p, i + 1, t, k)
  ELSE IF j > Len(t) THEN FALSE
  ELSE /\ (p[i] = 95 \/ FoldCase(p[i]) = FoldCase(t[j]))
       /\ LikeFrom(p, i + 1, t, j + 1)

\* A LIKE in which % and _ are characters like the others.
LikeVerbatim(t, p) ==
  toLowerCase(t) = toLowerCase(p)

\* t LIKE p
Like(t, p) == LikeFrom(p, 1, t, 1)

----------------------------------------------------------------------------
(* Regular expressions built at run time: new RegExp(source, 'g').  The   *)
(* fragment modelled is the one the sources of generateCardFromConcept are *)
(* in for the names of the inputs: characters, ".", classes, the escapes   *)
(* \n and \s, groups, and the quantifiers * + ? (greedy and lazy) on a     *)
(* character or class.  Ranges in a class, alternation, anchors, braces    *)
(* and a quantifier after a group are not in it.                           *)

\* \s as a set of code units
SpaceChars ==
  {9, 10, 11, 12, 13, 32, 160, 5760, 8232, 8233, 8239, 8287, 12288, 65279}
    \cup (8192..8202)

\* The code units "." does not match.
LineTerminators ==
  {10, 13, 8232, 8233}

\* new RegExp throws a SyntaxError
SyntaxError == [error |-> TRUE, items |-> <<>>]

\* One character of the set chars (neg: of its complement), once.
Atom(neg, chars) ==
  [kind |-> "atom", neg |-> neg, chars |-> chars, min |-> 1, many |-> FALSE,
   quantified |-> FALSE, lazy |-> FALSE]

GroupOpen == [kind |-> "open"]

GroupClose == [kind |-> "close"]

\* The characters \c stands for.
EscapeChars(c) ==
  IF c = 110 THEN {10} ELSE IF c = 115 THEN SpaceChars ELSE {c}

RECURSIVE ClassFrom(_, _, _)
\* The members of a class from position q of its source to the "]" that
\* closes it; without one the class is unterminated.
ClassFrom(src, q, chars) ==
  IF q > Len(src) THEN [ok |-> FALSE, end |-> 0, chars |-> {}]
  ELSE IF src[q] = 93 THEN [ok |-> TRUE, end |-> q, chars |-> chars]
  ELSE IF src[q] = 92 /\ q < Len(src)
  THEN ClassFrom(src, q + 2, chars \cup EscapeChars(src[q + 1]))
  ELSE ClassFrom(src, q + 1, chars \cup {src[q]})

\* The item a quantifier character makes of the atom before it.
Quantified(atom, c) ==
  [atom EXCEPT !.min = IF c = 43 THEN 1 ELSE 0,
               !.many = (c # 63),
               !.quantified = TRUE]

RECURSIVE ParseFrom(_, _, _, _)
\* The pattern of a source, read from position i with depth groups open:
\* a SyntaxError for a group that is not closed or not opened, a class that
\* is not closed, a quantifier with nothing to repeat, a "\" at the end.
ParseFrom(src, i, depth, items) ==
  IF i > Len(src)
  THEN (IF depth > 0 THEN SyntaxError ELSE [error |-> FALSE, items |-> items])
  ELSE IF src[i] = 40
  THEN (IF i + 1 < Len(src) /\ src[i + 1] = 63 /\ src[i + 2] = 58
        THEN ParseFrom(src, i + 3, depth + 1, Append(items, GroupOpen))
        ELSE ParseFrom(src, i + 1, depth + 1, Append(items, GroupOpen)))
  ELSE IF src[i] = 41
  THEN (IF depth = 0 THEN SyntaxError
        ELSE ParseFrom(src, i + 1, depth - 1, Append(items, GroupClose)))
  ELSE IF src[i] \in {42, 43, 63}
  THEN (IF items = <<>> THEN SyntaxError
        ELSE IF items[Len(items)].kind # "atom" THEN SyntaxError
        ELSE IF ~items[Len(items)].quantified
        THEN ParseFrom(src, i + 1, depth,
                       [items EXCEPT ![Len(items)] = Quantified(@, src[i])])
        ELSE IF src[i] = 63 /\ ~items[Len(items)].lazy
        THEN ParseFrom(src, i + 1, depth,
                       [items EXCEPT ![Len(items)].lazy = TRUE])
        ELSE SyntaxError)
  ELSE IF src[i] = 91
  THEN With(ClassFrom(src, IF i < Len(src) /\ src[i + 1] = 94 THEN i + 2 ELSE i + 1, {}),
            LAMBDA cls :
              IF ~cls.ok THEN SyntaxError
              ELSE ParseFrom(src, cls.end + 1, depth,
                             Append(items, Atom(i < Len(src) /\ src[i + 1] = 94,
                                                cls.chars))))
  ELSE IF src[i] = 92
  THEN (IF i = Len(src) THEN SyntaxError
        ELSE ParseFrom(src, i + 2, depth,
                       Append(items, Atom(FALSE, EscapeChars(src[i + 1])))))
  ELSE IF src[i] = 46
  THEN ParseFrom(src, i + 1, depth, Append(items, Atom(TRUE, LineTerminators)))
  ELSE ParseFrom(src, i + 1, depth, Append(items, Atom(FALSE, {src[i]})))

\* new RegExp(source, 'g')
RegExp(source) == ParseFrom(source, 1, 0, <<>>)

ItemHas(item, c) == (c \in item.chars) # item.neg

\* How many characters of t from position j on the item can take.
ItemRun(item, t, j) ==
  Min({IF item.many THEN Len(t) + 1 - j ELSE 1,
       FirstFrom(t, j, LAMBDA c : ~ItemHas(item, c)) - j})

\* The first of the ends in the order the repetitions are tried: the
\* longest first for a greedy quantifier, the shortest first for a lazy one.
FirstEnd(ends, lazy) ==
  With({n \in DOMAIN ends : ends[n] # 0},
       LAMBDA ok : IF ok = {} THEN 0
                   ELSE ends[IF lazy THEN Min(ok) ELSE Max(ok)])

RECURSIVE MatchEnd(_, _, _, _)
\* The items from the k-th on matched at position j of t, by backtracking:
\* the position after the match, 0 when there is none.
MatchEnd(items, k, t, j) ==
  IF k > Len(items) THEN j
  ELSE IF items[k].kind # "atom" THEN MatchEnd(items, k + 1, t, j)
  ELSE IF ~items[k].quantified
  THEN (IF j <= Len(t) /\ ItemHas(items[k], t[j])
        THEN MatchEnd(items, k + 1, t, j + 1) ELSE 0)
  ELSE FirstEnd([n \in items[k].min..ItemRun(items[k], t, j) |->
                   MatchEnd(items, k + 1, t, j + n)],
                items[k].lazy)

RECURSIVE MatchesFrom(_, _, _)
\* The matches of t from position pos on, ends[s] being the end of the
\* match at s: the leftmost one, then those after it.  (A match of the
\* sources modelled is never empty.)
MatchesFrom(t, ends, pos) ==
  With({s \in pos..Len(t) : ends[s] # 0},
       LAMBDA starts :
         IF starts = {} THEN <<>>
         ELSE <<SubSeq(t, Min(starts), ends[Min(starts)] - 1)>>
                \o MatchesFrom(t, ends, Max({ends[Min(starts)], Min(starts) + 1})))

\* t.match(re) || [] for a regular expression with the flag g
MatchAll(t, re) ==
  MatchesFrom(t, [s \in 1..Len(t) |-> MatchEnd(re.items, 1, t, s)], 1)

----------------------------------------------------------------------------
(* Card Generator *)

\* "[^。！？\\n]*"
SentencePrefix ==
  <<91, 94, 12290, 65281, 65311, 92, 110, 93, 42>>

\* "[^。！？\\n]*[。！？]"
SentenceSuffix ==
  <<91, 94, 12290, 65281, 65311, 92, 110, 93, 42, 91, 12290, 65281, 65311,
    93>>

\* "[^。！？\\n]*[。！？]\\s*[^。！？\\n]*"
ContextPrefix ==
  <<91, 94, 12290, 65281, 65311, 92, 110, 93, 42, 91, 12290, 65281, 65311,
    93, 92, 115, 42, 91, 94, 12290, 65281, 65311, 92, 110, 93, 42>>

\* "是文檔中的重要概念，根據智能摘要分析，這個概念在整體內容中具有重要意義。"
ExplanationTail ==
  <<26159, 25991, 27284, 20013, 30340, 37325, 35201, 27010, 24565, 65292,
    26681, 25818, 26234, 33021, 25688, 35201, 20998, 26512, 65292, 36889,
    20491, 27010, 24565, 22312, 25972, 39636, 20839, 23481, 20013, 20855,
    26377, 37325, 35201, 24847, 32681, 12290>>

\* "根據智能摘要內容，"
ExampleHead ==
  <<26681, 25818, 26234, 33021, 25688, 35201, 20839, 23481, 65292>>

\* "在實際應用中可以通過文檔描述的方法和策略來體現其價值。"
ExampleTail ==
  <<22312, 23526, 38555, 25033, 29992, 20013, 21487, 20197, 36890, 36942,
    25991, 27284, 25551, 36848, 30340, 26041, 27861, 21644, 31574, 30053,
    20358, 39636, 29694, 20854, 20729, 20540, 12290>>

\* "1. 深入研讀智能摘要中關於"
Suggestion1Head ==
  <<49, 46, 32, 28145, 20837, 30740, 35712, 26234, 33021, 25688, 35201,
    20013, 38364, 26044>>

\* "的關鍵描述"
Suggestion1Tail ==
  <<30340, 38364, 37749, 25551, 36848>>

\* "2. 理解"
Suggestion2Head ==
  <<50, 46, 32, 29702, 35299>>

\* "在文檔整體脈絡中的重要作用"
Suggestion2Tail ==
  <<22312, 25991, 27284, 25972, 39636, 33032, 32097, 20013, 30340, 37325,
    35201, 20316, 29992>>

\* "3. 將"
Suggestion3Head ==
  <<51, 46, 32, 23559>>

\* "的核心要點應用到相關的實際場景中"
Suggestion3Tail ==
  <<30340, 26680, 24515, 35201, 40670, 25033, 29992, 21040, 30456, 38364,
    30340, 23526, 38555, 22580, 26223, 20013>>

\* "4. 關注此關鍵詞在不同段落中的使用context和含義"
Suggestion4Keywords ==
  <<52, 46, 32, 38364, 27880, 27492, 38364, 37749, 35422, 22312, 19981,
    21516, 27573, 33853, 20013, 30340, 20351, 29992, 99, 111, 110, 116, 101,
    120, 116, 21644, 21547, 32681>>

\* "4. 結合摘要內容，深化對"
Suggestion4Head ==
  <<52, 46, 32, 32080, 21512, 25688, 35201, 20839, 23481, 65292, 28145,
    21270, 23565>>

\* "的理解和應用"
Suggestion4Tail ==
  <<30340, 29702, 35299, 21644, 25033, 29992>>

\* "5. 定期回顧並實踐，建立與其他概念的關聯"
Suggestion5 ==
  <<53, 46, 32, 23450, 26399, 22238, 39015, 20006, 23526, 36368, 65292,
    24314, 31435, 33287, 20854, 20182, 27010, 24565, 30340, 38364, 32879>>

\* '例如', '比如', '舉例', '案例', '實例', '具體', '實際', '包括', '特別是'
ExampleKeywords ==
  <<<<20363, 22914>>,
    <<27604, 22914>>,
    <<33289, 20363>>,
    <<26696, 20363>>,
    <<23526, 20363>>,
    <<20855, 39636>>,
    <<23526, 38555>>,
    <<21253, 25324>>,
    <<29305, 21029, 26159>>>>

\* lines 560-570: the analysis_summary of the record, '' when there is no
\* id (written 0), when the lookup throws and when it finds no row
CardAnalysisText(table, analysisId, storeFails) ==
  IF analysisId = 0 \/ storeFails \/ analysisId \notin DOMAIN table THEN <<>>
  ELSE table[analysisId].analysis_summary

\* analysisText.match(/##\s*word[\s\S]*?(?=##|$)/i)[0], '' when there is
\* no match
SectionText(t, word) ==
  With(SectionMatch(t, word),
       LAMBDA m : IF m.found THEN SubSeq(t, m.from, m.to) ELSE <<>>)

\* lines 573-590: the two sections, or the text without its file sections
relevantContent(analysisText) ==
  With(SectionText(analysisText, WordSmartSummary)
         \o (IF SectionMatch(analysisText, WordCoreKeywords).found
             THEN <<32>> \o SectionText(analysisText, WordCoreKeywords)
             ELSE <<>>),
       LAMBDA sections :
         IF sections # <<>> THEN sections
         ELSE RemoveSections(RemoveSections(RemoveSections(analysisText,
                WordProcessedFiles), WordFileStats), WordProcessResult))

\* .replace(/[##\-\*]/g, '').trim()
CleanSentence(t) == Trim(RemoveChars(t, {35, 45, 42}))

\* The sources of lines 599 and 606 (and 614): the sentence that holds the
\* name, and the sentence before it with it.
conceptRegex(conceptName) == SentencePrefix \o conceptName \o SentenceSuffix

contextRegex(conceptName) == ContextPrefix \o conceptName \o SentenceSuffix

\* lines 606-610
ContextExplanation(conceptName, content) ==
  With(MatchAll(content, RegExp(contextRegex(conceptName))),
       LAMBDA contextSentences :
         IF Len(contextSentences) > 0 THEN CleanSentence(contextSentences[1])
         ELSE <<>>)

\* lines 595-619: the description found for the concept, '' when none is
FoundExplanation(concept, content) ==
  IF concept.source = "smart_summary"
  THEN With(MatchAll(content, RegExp(conceptRegex(concept.concept))),
            LAMBDA relatedSentences :
              IF Len(relatedSentences) > 0
              THEN CleanSentence(Join(Slice(relatedSentences, 2), <<32>>))
              ELSE ContextExplanation(concept.concept, content))
  ELSE IF concept.source = "keywords"
  THEN With(MatchAll(content, RegExp(conceptRegex(concept.concept))),
            LAMBDA keywordSentences :
              IF Len(keywordSentences) > 0 THEN CleanSentence(keywordSentences[1])
              ELSE <<>>)
  ELSE <<>>

\* lines 621-624
conceptExplanation(concept, content) ==
  With(FoundExplanation(concept, content),
       LAMBDA found :
         IF found = <<>> \/ Len(found) < 10
         THEN concept.concept \o ExplanationTail
         ELSE found)

\* lines 626-641: the first sentence of the first example keyword that has
\* one, else the template
example(concept, content) ==
  With(SelectSeq(Map(ExampleKeywords,
                     LAMBDA keyword : MatchAll(content, RegExp(conceptRegex(keyword)))),
                 LAMBDA examples : Len(examples) > 0),
       LAMBDA found :
         IF found # <<>> /\ CleanSentence(found[1][1]) # <<>>
         THEN CleanSentence(found[1][1])
         ELSE ExampleHead \o concept.concept \o ExampleTail)

\* lines 644-656
applicationSuggestions(concept) ==
  <<Suggestion1Head \o concept.concept \o Suggestion1Tail,
    Suggestion2Head \o concept.concept \o Suggestion2Tail,
    Suggestion3Head \o concept.concept \o Suggestion3Tail>>
    \o (IF concept.source = "keywords" THEN <<Suggestion4Keywords>>
        ELSE IF concept.source = "smart_summary"
        THEN <<Suggestion4Head \o concept.concept \o Suggestion4Tail>>
        ELSE <<>>)
    \o <<Suggestion5>>

\* Whether a new RegExp of lines 599-614 throws: that of the concept's
\* sentence, and for a smart_summary concept that has none, that of its
\* context.
CardThrows(concept, content) ==
  /\ concept.source \in {"smart_summary", "keywords"}
  /\ \/ RegExp(conceptRegex(concept.concept)).error
     \/ /\ concept.source = "smart_summary"
        /\ MatchAll(content, RegExp(conceptRegex(concept.concept))) = <<>>
        /\ RegExp(contextRegex(concept.concept)).error

Card(title, concept, ex, application) ==
  [title |-> title, concept |-> concept, example |-> ex, application |-> application]

\* lines 556-664: the card, or the SyntaxError of new RegExp that the
\* function throws (its promise rejects)
generateCardFromConcept(concept, analysisId, table, storeFails) ==
  With(relevantContent(CardAnalysisText(table, analysisId, storeFails)),
       LAMBDA content :
         IF CardThrows(concept, content) THEN [threw |-> TRUE, card |-> <<>>]
         ELSE [threw |-> FALSE,
               card |-> Card(concept.concept,
                             conceptExplanation(concept, content),
                             example(concept, content),
                             Join(applicationSuggestions(concept), NewLine))])

----------------------------------------------------------------------------
(* Bounds and inputs of the endpoints *)

\* ids 1..MaxIds are assigned; requests address ids 1..MaxIds + 1
MaxIds == 2

\* the store clock runs from 0 to MaxClock
MaxClock == 1

RequestIds == 1..(MaxIds + 1)

\* "hello.txt"
NameHello ==
  <<104, 101, 108, 108, 111, 46, 116, 120, 116>>

\* "Hello world"
TextHello ==
  <<72, 101, 108, 108, 111, 32, 119, 111, 114, 108, 100>>

\* "notes.md"
NameNotes ==
  <<110, 111, 116, 101, 115, 46, 109, 100>>

\* "本文討論重要的學習方法與策略。"
TextNotes ==
  <<26412, 25991, 35342, 35542, 37325, 35201, 30340, 23416, 32722, 26041,
    27861, 33287, 31574, 30053, 12290>>

\* "scan.pdf"
NameScan ==
  <<115, 99, 97, 110, 46, 112, 100, 102>>

\* "data.zip"
NameArchive ==
  <<100, 97, 116, 97, 46, 122, 105, 112>>

\* "A summary of the text."
HfSummary ==
  <<65, 32, 115, 117, 109, 109, 97, 114, 121, 32, 111, 102, 32, 116, 104,
    101, 32, 116, 101, 120, 116, 46>>

\* "## 智能摘要\n本文討論重要的學習方法與策略。\n## 核心關鍵詞\n學習 • model"
EditedSummary ==
  <<35, 35, 32, 26234, 33021, 25688, 35201, 10, 26412, 25991, 35342, 35542,
    37325, 35201, 30340, 23416, 32722, 26041, 27861, 33287, 31574, 30053,
    12290, 10, 35, 35, 32, 26680, 24515, 38364, 37749, 35422, 10, 23416,
    32722, 32, 8226, 32, 109, 111, 100, 101, 108>>

\* "[1,2,3,4,5,6]"
EditedList ==
  <<91, 49, 44, 50, 44, 51, 44, 52, 44, 53, 44, 54, 93>>

\* "edited"
EditedContent ==
  <<101, 100, 105, 116, 101, 100>>

\* "hello"
KeywordHello ==
  <<104, 101, 108, 108, 111>>

\* "%"
KeywordPercent ==
  <<37>>

\* "_"
KeywordUnderscore ==
  <<95>>

File(originalname, text, decodes) ==
  [originalname |-> originalname, text |-> text, decodes |-> decodes]

\* The uploads of a POST /analyze: none, one text file, and a PDF that does
\* not decode with a Markdown file.
UploadSets ==
  {<<>>,
   <<File(NameHello, TextHello, TRUE)>>,
   <<File(NameScan, <<>>, FALSE), File(NameNotes, TextNotes, TRUE)>>}

HfOutcomes == {HfFails, HfAnswers(HfSummary)}

\* The bodies of a PUT /analyses/:id
EditBodies ==
  {[analysis_summary |-> EditedSummary, content_text |-> EditedContent],
   [analysis_summary |-> EditedList, content_text |-> <<>>]}

\* "## 智能摘要\n本文討論重要的學習方法與策略。\n## 核心關鍵詞\n學習 • model"
SummaryPlain ==
  <<35, 35, 32, 26234, 33021, 25688, 35201, 10, 26412, 25991, 35342, 35542,
    37325, 35201, 30340, 23416, 32722, 26041, 27861, 33287, 31574, 30053,
    12290, 10, 35, 35, 32, 26680, 24515, 38364, 37749, 35422, 10, 23416,
    32722, 32, 8226, 32, 109, 111, 100, 101, 108>>

\* "## 智能摘要\n本文討論學習方法(第一章的重要策略。\n## 核心關鍵詞\n學習 • model"
SummaryOpenGroup ==
  <<35, 35, 32, 26234, 33021, 25688, 35201, 10, 26412, 25991, 35342, 35542,
    23416, 32722, 26041, 27861, 40, 31532, 19968, 31456, 30340, 37325, 35201,
    31574, 30053, 12290, 10, 35, 35, 32, 26680, 24515, 38364, 37749, 35422,
    10, 23416, 32722, 32, 8226, 32, 109, 111, 100, 101, 108>>

\* "## 智能摘要\n本文討論學習方法(第一章)的重要策略。\n## 核心關鍵詞\n學習 • model"
SummaryGroup ==
  <<35, 35, 32, 26234, 33021, 25688, 35201, 10, 26412, 25991, 35342, 35542,
    23416, 32722, 26041, 27861, 40, 31532, 19968, 31456, 41, 30340, 37325,
    35201, 31574, 30053, 12290, 10, 35, 35, 32, 26680, 24515, 38364, 37749,
    35422, 10, 23416, 32722, 32, 8226, 32, 109, 111, 100, 101, 108>>

\* "## 智能摘要\n作者分析核心原則[1的說明與建議。\n## 核心關鍵詞\n學習 • model"
SummaryOpenClass ==
  <<35, 35, 32, 26234, 33021, 25688, 35201, 10, 20316, 32773, 20998, 26512,
    26680, 24515, 21407, 21063, 91, 49, 30340, 35498, 26126, 33287, 24314,
    35696, 12290, 10, 35, 35, 32, 26680, 24515, 38364, 37749, 35422, 10,
    23416, 32722, 32, 8226, 32, 109, 111, 100, 101, 108>>

\* "## 智能摘要\nC++的主要特點和優勢分析說明。\n## 核心關鍵詞\n學習 • model"
SummaryPlus ==
  <<35, 35, 32, 26234, 33021, 25688, 35201, 10, 67, 43, 43, 30340, 20027,
    35201, 29305, 40670, 21644, 20778, 21218, 20998, 26512, 35498, 26126,
    12290, 10, 35, 35, 32, 26680, 24515, 38364, 37749, 35422, 10, 23416,
    32722, 32, 8226, 32, 109, 111, 100, 101, 108>>

\* "## 智能摘要\n什麼是核心方法?我們討論主要策略。\n## 核心關鍵詞\n學習 • model"
SummaryQuestion ==
  <<35, 35, 32, 26234, 33021, 25688, 35201, 10, 20160, 40636, 26159, 26680,
    24515, 26041, 27861, 63, 25105, 20497, 35342, 35542, 20027, 35201, 31574,
    30053, 12290, 10, 35, 35, 32, 26680, 24515, 38364, 37749, 35422, 10,
    23416, 32722, 32, 8226, 32, 109, 111, 100, 101, 108>>

\* "## 智能摘要\n本文介紹重要的學習策略。例如每天複習核心筆記。\n## 核心關鍵詞\n學習 • model"
SummaryExample ==
  <<35, 35, 32, 26234, 33021, 25688, 35201, 10, 26412, 25991, 20171, 32057,
    37325, 35201, 30340, 23416, 32722, 31574, 30053, 12290, 20363, 22914,
    27599, 22825, 35079, 32722, 26680, 24515, 31558, 35352, 12290, 10, 35,
    35, 32, 26680, 24515, 38364, 37749, 35422, 10, 23416, 32722, 32, 8226,
    32, 109, 111, 100, 101, 108>>

\* The summaries of the records the card notes are made of: one whose
\* sentence is plain, one whose sentence starts with "C++", one with an
\* example sentence.
NoteSummaries == {SummaryPlain, SummaryPlus, SummaryExample}

SearchKeywords == {<<>>, KeywordHello, KeywordPercent, KeywordUnderscore}

----------------------------------------------------------------------------
(* Endpoints *)

Init ==
  /\ store = EmptyStore
  /\ nextId = 1
  /\ now = 0
  /\ call = [op |-> "none"]
  /\ resp = NoResp

\* The store clock advances.
Tick ==
  /\ now < MaxClock
  /\ now' = now + 1
  /\ UNCHANGED <<store, nextId, call, resp>>

\* lines 1818-1826: one block per file, a delimiter with the file's name and
\* then its text
CombinedText(files) ==
  Concat([i \in 1..Len(files) |->
            DelimiterOpen \o files[i].originalname \o DelimiterClose
              \o extractTextFromFile(files[i])])

FileNames(files) == [i \in 1..Len(files) |-> files[i].originalname]

\* lines 1818-1829 for every upload, outcome of the summarization and second
\* of the clock, computed once.
Analyses ==
  {[files |-> files, hf |-> hf, clock |-> clock,
    combinedText |-> CombinedText(files),
    aiSummary |-> performAIAnalysis(CombinedText(files), FileNames(files), hf, clock)] :
     files \in UploadSets \ {<<>>}, hf \in HfOutcomes, clock \in 0..MaxClock}

AnalysisOf(files, hf, clock) ==
  CHOOSE a \in Analyses : a.files = files /\ a.hf = hf /\ a.clock = clock

\* A POST /analyze over a table whose id is the largest id in it plus one,
\* as a key that is not AUTOINCREMENT or SERIAL gives.
AnalyzeReusingIds ==
  \E files \in UploadSets, hf \in HfOutcomes, storeFails \in BOOLEAN :
    /\ nextId <= MaxIds
    /\ call' = [op |-> "POST /analyze", files |-> files,
                storeFails |-> (Len(files) > 0 /\ storeFails)]
    /\ IF Len(files) = 0
       THEN /\ resp' = Failure(ErrNoFiles)
            /\ UNCHANGED <<store, nextId>>
       ELSE IF storeFails
       THEN /\ resp' = Failure(ErrSaveFailed)
            /\ UNCHANGED <<store, nextId>>
       ELSE /\ store' = Insert(store, Max(DOMAIN store \cup {0}) + 1,
                               AnalysisOf(files, hf, now).aiSummary,
                               AnalysisOf(files, hf, now).combinedText, now)
            /\ nextId' = nextId + 1
            /\ resp' = Object([success |-> TRUE, id |-> Max(DOMAIN store \cup {0}) + 1])
    /\ UNCHANGED now

\* POST /analyze, lines 1811-1854
Analyze ==
  \E files \in UploadSets, hf \in HfOutcomes, storeFails \in BOOLEAN :
    /\ nextId <= MaxIds
    /\ call' = [op |-> "POST /analyze", files |-> files,
                storeFails |-> (Len(files) > 0 /\ storeFails)]
    /\ IF Len(files) = 0
       THEN /\ resp' = Failure(ErrNoFiles)
            /\ UNCHANGED <<store, nextId>>
       ELSE IF storeFails
       THEN /\ resp' = Failure(ErrSaveFailed)
            /\ UNCHANGED <<store, nextId>>
       ELSE /\ store' = Insert(store, nextId, AnalysisOf(files, hf, now).aiSummary,
                               AnalysisOf(files, hf, now).combinedText, now)
            /\ nextId' = nextId + 1
            /\ resp' = Object([success |-> TRUE, id |-> nextId])
    /\ UNCHANGED now

\* GET /analyses, lines 1857-1865
ListAnalyses ==
  \E storeFails \in BOOLEAN :
    /\ call' = [op |-> "GET /analyses", storeFails |-> storeFails]
    /\ IF storeFails THEN resp' = Array(<<>>)
       ELSE \E rows \in OrderedByCreatedDesc(store, DOMAIN store) : resp' = Array(rows)
    /\ UNCHANGED <<store, nextId, now>>

\* The texts a row can hold: those of an analysis, those of an edit, and
\* those of the records the card notes are made of.
StoredTexts ==
  {<<a.aiSummary, a.combinedText>> : a \in Analyses}
    \cup {<<b.analysis_summary, b.content_text>> : b \in EditBodies}
    \cup {<<summary, TextHello>> : summary \in NoteSummaries}

\* analysis_summary LIKE '%keyword%' OR content_text LIKE '%keyword%', for
\* the texts a row can hold and every keyword, computed once.
SearchMatches ==
  {<<texts, keyword>> \in StoredTexts \X SearchKeywords :
     \/ Like(texts[1], <<37>> \o keyword \o <<37>>)
     \/ Like(texts[2], <<37>> \o keyword \o <<37>>)}

\* The ids of the rows the search selects.
SearchHits(table, keyword) ==
  {i \in DOMAIN table :
     <<<<table[i].analysis_summary, table[i].content_text>>, keyword>> \in SearchMatches}

\* GET /analyses/search, lines 1868-1882
SearchAnalyses ==
  \E keyword \in SearchKeywords, storeFails \in BOOLEAN :
    /\ call' = [op |-> "GET /analyses/search", keyword |-> keyword,
                storeFails |-> storeFails]
    /\ IF storeFails THEN resp' = Array(<<>>)
       ELSE \E rows \in OrderedByCreatedDesc(store, SearchHits(store, keyword)) :
              resp' = Array(rows)
    /\ UNCHANGED <<store, nextId, now>>

\* GET /analyses/:id, lines 1885-1900: the response
getAnalysisResponse(table, id, storeFails) ==
  IF storeFails THEN Failure(ErrGetFailed)
  ELSE IF id \notin DOMAIN table THEN Failure(ErrNotFound)
  ELSE Object(table[id])

\* GET /analyses/:id, lines 1885-1900
GetAnalysis ==
  \E id \in RequestIds, storeFails \in BOOLEAN :
    /\ call' = [op |-> "GET /analyses/:id", id |-> id, storeFails |-> storeFails]
    /\ resp' = getAnalysisResponse(store, id, storeFails)
    /\ UNCHANGED <<store, nextId, now>>

\* A PUT /analyses/:id that answers a failure of the store as no row changed.
PutAnalysisUncaught ==
  \E id \in RequestIds, body \in EditBodies, storeFails \in BOOLEAN :
    /\ call' = [op |-> "PUT /analyses/:id", id |-> id, body |-> body,
                storeFails |-> storeFails]
    /\ IF storeFails
       THEN /\ resp' = Object([success |-> TRUE, changes |-> 0])
            /\ UNCHANGED store
       ELSE /\ store' = Update(store, id, body.analysis_summary, body.content_text, now)
            /\ resp' = Object([success |-> TRUE, changes |-> Changes(store, id)])
    /\ UNCHANGED <<nextId, now>>

\* PUT /analyses/:id, lines 1903-1917
PutAnalysis ==
  \E id \in RequestIds, body \in EditBodies, storeFails \in BOOLEAN :
    /\ call' = [op |-> "PUT /analyses/:id", id |-> id, body |-> body,
                storeFails |-> storeFails]
    /\ IF storeFails
       THEN /\ resp' = Failure(ErrUpdateFailed)
            /\ UNCHANGED store
       ELSE /\ store' = Update(store, id, body.analysis_summary, body.content_text, now)
            /\ resp' = Object([success |-> TRUE, changes |-> Changes(store, id)])
    /\ UNCHANGED <<nextId, now>>

\* DELETE /analyses/:id, lines 1920-1935
DeleteAnalysis ==
  \E id \in RequestIds, storeFails \in BOOLEAN :
    /\ call' = [op |-> "DELETE /analyses/:id", id |-> id, storeFails |-> storeFails]
    /\ IF storeFails
       THEN /\ resp' = Failure(ErrDeleteFailed)
            /\ UNCHANGED store
       ELSE /\ store' = Delete(store, id)
            /\ resp' = IF Changes(store, id) = 0 THEN Failure(ErrNotFound)
                       ELSE Object([success |-> TRUE, message |-> MsgDeleted])
    /\ UNCHANGED <<nextId, now>>

----------------------------------------------------------------------------
(* Card-note endpoints *)

\* The white space of JSON.
IsJsonSpace(c) == c \in {32, 9, 10, 13}

JsonTrim(t) ==
  With({i \in 1..Len(t) : ~IsJsonSpace(t[i])},
       LAMBDA keep : IF keep = {} THEN <<>> ELSE SubSeq(t, Min(keep), Max(keep)))

\* A JSON number without sign, fraction or exponent.
IsJsonNumeral(w) ==
  /\ Len(w) >= 1
  /\ \A i \in 1..Len(w) : w[i] >= 48 /\ w[i] <= 57
  /\ (Len(w) = 1 \/ w[1] # 48)

JsonNumber(numeral) == [json |-> "number", numeral |-> numeral]

\* text.match(/\[[\s\S]*?\]/): from the first "[" to the first "]" after it.
BracketMatch(text) ==
  With(IndexOfFrom(text, <<91>>, 1), LAMBDA open :
  With(IF open = 0 THEN 0 ELSE IndexOfFrom(text, <<93>>, open + 1), LAMBDA close :
    IF close = 0 THEN [found |-> FALSE, text |-> <<>>]
    ELSE [found |-> TRUE, text |-> SubSeq(text, open, close)]))

\* JSON.parse of a text "[" ... "]" that holds no other bracket.  The arrays
\* of this model's texts hold numerals only: [] and [n, n, ...] parse, every
\* other text between the brackets is a SyntaxError (ok is FALSE).
JsonParse(text) ==
  With(SubSeq(text, 2, Len(text) - 1), LAMBDA inner :
  With(Map(SplitOn(inner, {44}), JsonTrim), LAMBDA numerals :
    IF JsonTrim(inner) = <<>> THEN [ok |-> TRUE, value |-> <<>>]
    ELSE IF \A k \in 1..Len(numerals) : IsJsonNumeral(numerals[k])
    THEN [ok |-> TRUE, value |-> Map(numerals, JsonNumber)]
    ELSE [ok |-> FALSE, value |-> <<>>]))

\* lines 1955-1967, 2043-2054: the array parsed out of the AI response; the
\* empty array when there is no match or JSON.parse throws.
ParsedArray(aiResponse) ==
  With(BracketMatch(aiResponse), LAMBDA jsonMatch :
    IF ~jsonMatch.found THEN <<>>
    ELSE With(JsonParse(jsonMatch.text),
              LAMBDA parsed : IF parsed.ok THEN parsed.value ELSE <<>>))

\* lines 1953-1978: the concepts of a stored analysis
conceptsOf(analysis_summary, content_text, hf, clock) ==
  With(ParsedArray(performAIAnalysis(PromptExtract \o analysis_summary,
                                     <<NameExtract>>, hf, clock)),
       LAMBDA concepts :
         IF Len(concepts) = 0
         THEN extractConceptsFromAnalysis(analysis_summary, content_text)
         ELSE concepts)

\* conceptsOf for the texts a row can hold, every outcome of the
\* summarization and second of the clock, computed once.
ConceptReplies ==
  {[texts |-> texts, hf |-> hf, clock |-> clock,
    data |-> conceptsOf(texts[1], texts[2], hf, clock)] :
     texts \in StoredTexts, hf \in HfOutcomes, clock \in 0..MaxClock}

ConceptsOfRow(row, hf, clock) ==
  (CHOOSE r \in ConceptReplies :
     /\ r.texts = <<row.analysis_summary, row.content_text>>
     /\ r.hf = hf
     /\ r.clock = clock).data

\* POST /card-notes/extract-concepts, lines 1940-1985
ExtractConcepts ==
  \E analysisId \in RequestIds, hf \in HfOutcomes, storeFails \in BOOLEAN :
    /\ call' = [op |-> "POST /card-notes/extract-concepts", analysisId |-> analysisId,
                storeFails |-> storeFails]
    /\ resp' = IF storeFails THEN Failure(ErrConceptsFailed)
               ELSE IF analysisId \notin DOMAIN store THEN Failure(ErrNoAnalysis)
               ELSE Object([success |-> TRUE,
                            data |-> ConceptsOfRow(store[analysisId], hf, now)])
    /\ UNCHANGED <<store, nextId, now>>

Connection(from, to, relationship) ==
  [from |-> from, to |-> to, relationship |-> relationship]

\* lines 2061-2070: the connections of the first m neighbours
SequentialConnections(cardTitles, m) ==
  [i \in 1..m |->
     Connection(cardTitles[i], cardTitles[i + 1],
                cardTitles[i] \o RelationWith \o cardTitles[i + 1]
                  \o RelationComplement)]

\* lines 2057-2080: the connections made without the AI response
LocalConnections(cardTitles) ==
  SequentialConnections(cardTitles, Min({Len(cardTitles) - 1, 3}))
    \o (IF Len(cardTitles) >= 3
        THEN <<Connection(cardTitles[1], cardTitles[Len(cardTitles)],
                          cardTitles[1] \o RelationBasis
                            \o cardTitles[Len(cardTitles)] \o RelationApplied)>>
        ELSE <<>>)

\* lines 2040-2080: the connections of the titles
connectionsOf(cardTitles, hf, clock) ==
  With(ParsedArray(performAIAnalysis(PromptConnections \o Join(cardTitles, TitleSeparator),
                                     <<NameConnections>>, hf, clock)),
       LAMBDA connections :
         IF Len(connections) = 0 /\ Len(cardTitles) >= 2
         THEN LocalConnections(cardTitles)
         ELSE connections)

\* The response of POST /card-notes/create-connections, lines 2031-2087.  A
\* card is [title]; the empty title stands for a card without one.
createConnectionsResponse(cards, hf, clock) ==
  IF Len(cards) < 2 THEN Object([success |-> TRUE, data |-> <<>>])
  ELSE Object([success |-> TRUE,
               data |-> connectionsOf(
                          Map(cards, LAMBDA card :
                                IF card.title = <<>> THEN UnknownConcept
                                ELSE card.title),
                          hf, clock)])

Next ==
  \/ Tick
  \/ Analyze
  \/ ListAnalyses
  \/ SearchAnalyses
  \/ GetAnalysis
  \/ PutAnalysis
  \/ DeleteAnalysis
  \/ ExtractConcepts

Spec == Init /\ [][Next]_vars

----------------------------------------------------------------------------
(* POST /card-notes/create-cards, and the three card-note endpoints called *)
(* on a store that holds a record                                          *)

\* "為概念\""
PromptCardOpen ==
  <<28858, 27010, 24565, 34>>

\* "\"創建學習卡片"
PromptCardClose ==
  <<34, 21109, 24314, 23416, 32722, 21345, 29255>>

\* "卡片製作"
NameCards ==
  <<21345, 29255, 35069, 20316>>

\* "概念數據格式錯誤"
ErrConceptsFormat ==
  <<27010, 24565, 25976, 25818, 26684, 24335, 37679, 35492>>

\* "卡片創建失敗"
ErrCardsFailed ==
  <<21345, 29255, 21109, 24314, 22833, 25943>>

\* "\"title\""
JsonTitleKey ==
  <<34, 116, 105, 116, 108, 101, 34>>

\* text.match(/\{[\s\S]*?\}/): from the first "{" to the first "}" after it.
BraceMatch(text) ==
  With(IndexOfFrom(text, <<123>>, 1), LAMBDA open :
  With(IF open = 0 THEN 0 ELSE IndexOfFrom(text, <<125>>, open + 1), LAMBDA close :
    IF close = 0 THEN [found |-> FALSE, text |-> <<>>]
    ELSE [found |-> TRUE, text |-> SubSeq(text, open, close)]))

\* Whether t is a JSON string of plain characters: no quote, no "\", no
\* control character between its quotes.
IsJsonString(t) ==
  /\ Len(t) >= 2
  /\ t[1] = 34
  /\ t[Len(t)] = 34
  /\ \A k \in 2..(Len(t) - 1) : t[k] # 34 /\ t[k] # 92 /\ t[k] >= 32

\* The title of JSON.parse of a text "{" ... "}" that holds no other brace,
\* '' when the object has none.  The objects of this model's texts are {}
\* and {"title": "..."}; every other text between the braces is taken for a
\* SyntaxError, which the handler treats like an object without title.
JsonParseTitle(text) ==
  With(JsonTrim(SubSeq(text, 2, Len(text) - 1)), LAMBDA inner :
    IF ~StartsAt(inner, JsonTitleKey, 1) THEN <<>>
    ELSE With(JsonTrim(SubSeq(inner, Len(JsonTitleKey) + 1, Len(inner))), LAMBDA rest :
      IF rest = <<>> \/ rest[1] # 58 THEN <<>>
      ELSE With(JsonTrim(SubSeq(rest, 2, Len(rest))), LAMBDA value :
        IF IsJsonString(value) THEN SubSeq(value, 2, Len(value) - 1) ELSE <<>>)))

\* lines 2001-2010: the title of the card parsed out of the AI response, ''
\* when there is no match, JSON.parse throws or the object has no title
aiCardTitle(concept, hf, clock) ==
  With(BraceMatch(performAIAnalysis(PromptCardOpen \o concept.concept \o PromptCardClose,
                                    <<NameCards>>, hf, clock)),
       LAMBDA jsonMatch :
         IF jsonMatch.found THEN JsonParseTitle(jsonMatch.text) ELSE <<>>)

\* The concept lists extract-concepts answers with for the records of
\* NoteSummaries, and the concepts in them.
NoteConceptLists ==
  {r.data : r \in {q \in ConceptReplies : q.texts[1] \in NoteSummaries}}

NoteConcepts ==
  UNION {{concepts[k] : k \in 1..Len(concepts)} : concepts \in NoteConceptLists}

\* "{\"title\": \"卡片\"}"
HfCardJson ==
  <<123, 34, 116, 105, 116, 108, 101, 34, 58, 32, 34, 21345, 29255, 34, 125>>

\* The outcomes of the summarization call of a create-cards request: those
\* of every request, and an answer that holds a JSON object.
CardHfOutcomes == HfOutcomes \cup {HfAnswers(HfCardJson)}

\* aiCardTitle for every concept of a request and every outcome of the
\* summarization, computed once.
AiCardTitles ==
  {[concept |-> concept, hf |-> hf, clock |-> clock,
    title |-> aiCardTitle(concept, hf, clock)] :
     concept \in NoteConcepts, hf \in CardHfOutcomes, clock \in 0..MaxClock}

AiCardTitleOf(concept, hf, clock) ==
  (CHOOSE r \in AiCardTitles :
     r.concept = concept /\ r.hf = hf /\ r.clock = clock).title

\* generateCardFromConcept for every concept of a request and every
\* analysis text its lookup can give, computed once.
LocalCards ==
  {[concept |-> concept, analysisText |-> analysisText,
    result |-> generateCardFromConcept(concept, 1,
                 Insert(EmptyStore, 1, analysisText, <<>>, 0), FALSE)] :
     concept \in NoteConcepts, analysisText \in NoteSummaries \cup {<<>>}}

LocalCardOf(concept, analysisText) ==
  (CHOOSE r \in LocalCards :
     r.concept = concept /\ r.analysisText = analysisText).result

\* lines 1999-2018: the card of one concept, the parsed one when it has a
\* title, else that of generateCardFromConcept, which may throw
cardOf(concept, analysisId, table, storeFails, hf, clock) ==
  IF AiCardTitleOf(concept, hf, clock) # <<>>
  THEN [threw |-> FALSE,
        card |-> Card(AiCardTitleOf(concept, hf, clock), <<>>, <<>>, <<>>)]
  ELSE LocalCardOf(concept, CardAnalysisText(table, analysisId, storeFails))

\* The response of POST /card-notes/create-cards, lines 1988-2028.  body is
\* [isArray, concepts]: whether req.body.concepts is an array, and its items.
createCardsResponse(body, analysisId, table, storeFails, hf, clock) ==
  IF ~body.isArray THEN Failure(ErrConceptsFormat)
  ELSE With(Map(body.concepts,
                LAMBDA concept : cardOf(concept, analysisId, table, storeFails, hf, clock)),
            LAMBDA results :
              IF \E k \in 1..Len(results) : results[k].threw
              THEN Failure(ErrCardsFailed)
              ELSE Object([success |-> TRUE,
                           data |-> Map(results, LAMBDA r : r.card)]))

\* The bodies of a create-cards request: the lists extract-concepts
\* answers with, the empty list, and a body that holds no array.
CardRequestBodies ==
  {[isArray |-> TRUE, concepts |-> concepts] :
     concepts \in NoteConceptLists \cup {<<>>}}
    \cup {[isArray |-> FALSE, concepts |-> <<>>]}

\* The cards of a create-connections request.
NoteCardLists ==
  {<<>>,
   <<[title |-> FallbackConcept1], [title |-> FallbackConcept2]>>,
   <<[title |-> FallbackConcept1], [title |-> <<>>], [title |-> FallbackConcept3]>>}

\* createConnectionsResponse for the cards of a request, computed once.
NoteConnectionReplies ==
  {[cards |-> cards, hf |-> hf, clock |-> clock,
    response |-> createConnectionsResponse(cards, hf, clock)] :
     cards \in NoteCardLists, hf \in HfOutcomes, clock \in 0..MaxClock}

InitNotes ==
  /\ \E summary \in NoteSummaries :
       store = Insert(EmptyStore, 1, summary, TextHello, 0)
  /\ nextId = 2
  /\ now = 0
  /\ call = [op |-> "none"]
  /\ resp = NoResp

\* A create-cards that removes the record it has made the cards of.
CreateCardsConsuming ==
  \E body \in CardRequestBodies, analysisId \in {0} \cup RequestIds,
     hf \in CardHfOutcomes, storeFails \in BOOLEAN :
    /\ call' = [op |-> "POST /card-notes/create-cards", body |-> body,
                analysisId |-> analysisId, hf |-> hf, storeFails |-> storeFails]
    /\ resp' = createCardsResponse(body, analysisId, store, storeFails, hf, now)
    /\ store' = IF resp'.body.success THEN Delete(store, analysisId) ELSE store
    /\ UNCHANGED <<nextId, now>>

\* POST /card-notes/create-cards, lines 1988-2028
CreateCards ==
  \E body \in CardRequestBodies, analysisId \in {0} \cup RequestIds,
     hf \in CardHfOutcomes, storeFails \in BOOLEAN :
    /\ call' = [op |-> "POST /card-notes/create-cards", body |-> body,
                analysisId |-> analysisId, hf |-> hf, storeFails |-> storeFails]
    /\ resp' = createCardsResponse(body, analysisId, store, storeFails, hf, now)
    /\ UNCHANGED <<store, nextId, now>>

\* POST /card-notes/create-connections, lines 2031-2087, as a request
ConnectCards ==
  \E cards \in NoteCardLists, hf \in HfOutcomes :
    /\ call' = [op |-> "POST /card-notes/create-connections", cards |-> cards,
                hf |-> hf]
    /\ resp' = (CHOOSE r \in NoteConnectionReplies :
                  r.cards = cards /\ r.hf = hf /\ r.clock = now).response
    /\ UNCHANGED <<store, nextId, now>>

NextNotes ==
  \/ ExtractConcepts
  \/ CreateCards
  \/ ConnectCards
  \/ DeleteAnalysis

SpecNotes == InitNotes /\ [][NextNotes]_vars

----------------------------------------------------------------------------
(* The summary of performAIAnalysis: the text handed to the summarization, *)
(* and the local summary                                                    *)

\* "123456789."
SentenceNine ==
  <<49, 50, 51, 52, 53, 54, 55, 56, 57, 46>>

\* "1234567890."
SentenceTen ==
  <<49, 50, 51, 52, 53, 54, 55, 56, 57, 48, 46>>

\* "12345678901."
SentenceEleven ==
  <<49, 50, 51, 52, 53, 54, 55, 56, 57, 48, 49, 46>>

\* "  1234567890  ."
SentencePadded ==
  <<32, 32, 49, 50, 51, 52, 53, 54, 55, 56, 57, 48, 32, 32, 46>>

\* "Hello world again!"
SentenceLong ==
  <<72, 101, 108, 108, 111, 32, 119, 111, 114, 108, 100, 32, 97, 103, 97,
    105, 110, 33>>

MaxSentences == 3
MaxOver == 2

\* The sentences a short text is made of: of 9, 10 and 11 characters, one of
\* 10 characters between spaces, and a longer one.
SentencePieces ==
  {SentenceNine, SentenceTen, SentenceEleven, SentencePadded, SentenceLong}

\* The combined texts: up to MaxSentences sentences, and texts of one
\* letter that are just under, at and over the length limit.
SummaryTexts ==
  {Concat(ss) : ss \in UNION {[1..n -> SentencePieces] : n \in 0..MaxSentences}}
    \cup {[k \in 1..n |-> 97] : n \in (MaxTextLength - 1)..(MaxTextLength + MaxOver)}

InitSummary ==
  /\ store = EmptyStore
  /\ nextId = 1
  /\ now = 0
  /\ call \in {[op |-> "performAIAnalysis", combinedText |-> combinedText,
                hf |-> hf, pc |-> "called", inputs |-> <<>>] :
                 combinedText \in SummaryTexts, hf \in HfOutcomes}
  /\ resp = NoResp

\* lines 290-317: the text is cut, handed to hf.summarization as inputs,
\* and to generateLocalSummary when that throws
Summarize ==
  /\ call.op = "performAIAnalysis"
  /\ call.pc = "called"
  /\ call' = [call EXCEPT !.pc = "summarized",
                          !.inputs = textToAnalyze(call.combinedText)]
  /\ resp' = [op |-> "performAIAnalysis",
              aiSummary |-> aiSummary(call.combinedText, call.hf)]
  /\ UNCHANGED <<store, nextId, now>>

NextSummary == Summarize

SpecSummary == InitSummary /\ [][NextSummary]_vars

----------------------------------------------------------------------------
(* The page's upload panel: handleFiles, removeFile, analyzeFiles *)

MaxSelected == 3
MaxPending == 2

\* What the handlers of an analyze response can find: success true, success
\* false, and a rejected fetch or an unreadable body.
ResponseKinds == {"success", "failure", "error"}

\* The page after its load, lines 1203 and 1301: no file is selected and the
\* analyze button is disabled.  pending holds the POST /analyze requests
\* whose response has not been handled, each with its number of files.
InitPage ==
  /\ store = EmptyStore
  /\ nextId = 1
  /\ now = 0
  /\ call = [op |-> "page", selectedFiles |-> 0, disabled |-> TRUE,
             status |-> "", pending |-> <<>>, event |-> "load"]
  /\ resp = NoResp

\* handleFiles, lines 1345-1352: a drop or a change of the file input
HandleFiles ==
  \E files \in 0..MaxSelected :
    /\ call' = [call EXCEPT !.selectedFiles = files, !.status = "",
                            !.disabled = (files = 0), !.event = "handleFiles"]
    /\ UNCHANGED <<store, nextId, now, resp>>

\* removeFile, lines 1377-1384: the button of a listed file
RemoveFile ==
  /\ call.selectedFiles > 0
  /\ call' = [call EXCEPT !.selectedFiles = @ - 1, !.status = "",
                          !.disabled = (call.selectedFiles - 1 = 0),
                          !.event = "removeFile"]
  /\ UNCHANGED <<store, nextId, now, resp>>

\* analyzeFiles, lines 1404-1420: a click on the analyze button, which a
\* disabled button does not take
AnalyzeFiles ==
  /\ ~call.disabled
  /\ Len(call.pending) < MaxPending
  /\ IF call.selectedFiles = 0
     THEN call' = [call EXCEPT !.event = "alert"]
     ELSE call' = [call EXCEPT !.disabled = TRUE, !.status = "loading",
                               !.pending = Append(@, call.selectedFiles),
                               !.event = "analyzeFiles"]
  /\ UNCHANGED <<store, nextId, now, resp>>

\* lines 1421-1442: the response of a pending request, or its error, is
\* handled
HandleAnalyzeResponse ==
  \E k \in 1..Len(call.pending), kind \in ResponseKinds :
    /\ call' = [call EXCEPT
         !.pending = SubSeq(@, 1, k - 1) \o SubSeq(@, k + 1, Len(@)),
         !.selectedFiles = IF kind = "success" THEN 0 ELSE @,
         !.status = IF kind = "success" THEN "" ELSE kind,
         !.disabled = IF kind = "success" THEN @ ELSE FALSE,
         !.event = kind]
    /\ UNCHANGED <<store, nextId, now, resp>>

NextPage ==
  \/ HandleFiles
  \/ RemoveFile
  \/ AnalyzeFiles
  \/ HandleAnalyzeResponse

SpecPage == InitPage /\ [][NextPage]_vars

----------------------------------------------------------------------------
(* The start of the server: DatabaseManager.init and the first requests *)

MaxRequests == 2

\* The methods of DatabaseManager the endpoints call, lines 140-186.
StoreMethods == {"run", "all", "get"}

CreateTable == "CREATE TABLE IF NOT EXISTS"

\* The module has been evaluated up to app.listen, lines 98-138 and 190: the
\* constructor has called init without awaiting it.  Under SQLite init has
\* run to its end: the database is being opened and the CREATE TABLE is
\* queued on it.  Under PostgreSQL init is at its await of connect and has
\* issued nothing.  table is whether the database has an analyses table
\* from an earlier run; queue holds the statements handed to the client
\* that it has not run; log the statements of the requests that were run,
\* with what they ran against.
InitStartup ==
  /\ store = EmptyStore
  /\ nextId = 1
  /\ now = 0
  /\ call \in {[op |-> "startup", isPostgres |-> isPostgres, phase |-> "opening",
                listening |-> FALSE, table |-> table,
                queue |-> IF isPostgres THEN <<>> ELSE <<CreateTable>>,
                log |-> <<>>] :
                 isPostgres \in BOOLEAN, table \in BOOLEAN}
  /\ resp = NoResp

\* app.listen, lines 2089-2094: the server takes requests
Listen ==
  /\ call.op = "startup"
  /\ ~call.listening
  /\ call' = [call EXCEPT !.listening = TRUE]
  /\ UNCHANGED <<store, nextId, now, resp>>

\* An endpoint calls dbManager.run, all or get, which hands its statement
\* to this.client, lines 140-186: nothing waits for init.
RequestStore ==
  \E method \in StoreMethods :
    /\ call.op = "startup"
    /\ call.listening
    /\ Len(call.log) + Len(SelectSeq(call.queue, LAMBDA q : q # CreateTable))
         < MaxRequests
    /\ call' = [call EXCEPT !.queue = Append(@, method)]
    /\ UNCHANGED <<store, nextId, now, resp>>

\* The database is open (SQLite), or connect has resolved (PostgreSQL, line
\* 112): the client sends the statements it has queued, and init goes on
\* to issue its CREATE TABLE behind them (line 114).
Connected ==
  /\ call.op = "startup"
  /\ call.phase = "opening"
  /\ call' = [call EXCEPT !.phase = "open",
                          !.queue = IF call.isPostgres THEN Append(@, CreateTable) ELSE @]
  /\ UNCHANGED <<store, nextId, now, resp>>

\* connect has rejected, lines 121-123: init logs the error and ends; the
\* client stays as it is.
ConnectFails ==
  /\ call.op = "startup"
  /\ call.isPostgres
  /\ call.phase = "opening"
  /\ call' = [call EXCEPT !.phase = "failed"]
  /\ UNCHANGED <<store, nextId, now, resp>>

\* The client runs the first statement of its queue; a client whose
\* connect failed rejects it.
RunStatement ==
  /\ call.op = "startup"
  /\ call.phase \in {"open", "ready", "failed"}
  /\ call.queue # <<>>
  /\ IF Head(call.queue) = CreateTable
     THEN call' = [call EXCEPT !.queue = Tail(@), !.table = TRUE, !.phase = "ready"]
     ELSE call' = [call EXCEPT
                     !.queue = Tail(@),
                     !.log = Append(@, [statement |-> Head(call.queue),
                                        connected |-> call.phase # "failed",
                                        table |-> call.table,
                                        initialised |-> call.phase = "ready"])]
  /\ UNCHANGED <<store, nextId, now, resp>>

NextStartup ==
  \/ Listen
  \/ RequestStore
  \/ Connected
  \/ ConnectFails
  \/ RunStatement

SpecStartup == InitStartup /\ [][NextStartup]_vars

----------------------------------------------------------------------------
(* The summaries the Concept Extractor is applied to: every concatenation   *)
(* of at most MaxFrags of these pieces of a Markdown report.                *)

MaxFrags == 4

\* "## 智能摘要\n"
FragSmartHeader ==
  <<35, 35, 32, 26234, 33021, 25688, 35201, 10>>

\* "## 核心關鍵詞\n"
FragKeywordsHeader ==
  <<35, 35, 32, 26680, 24515, 38364, 37749, 35422, 10>>

\* "## 處理文件\n"
FragFilesHeader ==
  <<35, 35, 32, 34389, 29702, 25991, 20214, 10>>

\* "本文討論重要的學習方法與策略。作者分析了三個關鍵的核心原則！這些建議說明主要特點和優勢？\n"
FragImportant ==
  <<26412, 25991, 35342, 35542, 37325, 35201, 30340, 23416, 32722, 26041,
    27861, 33287, 31574, 30053, 12290, 20316, 32773, 20998, 26512, 20102,
    19977, 20491, 38364, 37749, 30340, 26680, 24515, 21407, 21063, 65281,
    36889, 20123, 24314, 35696, 35498, 26126, 20027, 35201, 29305, 40670,
    21644, 20778, 21218, 65311, 10>>

\* "今天天氣很好我們去公園散步吧。"
FragPlain ==
  <<20170, 22825, 22825, 27683, 24456, 22909, 25105, 20497, 21435, 20844,
    22290, 25955, 27493, 21543, 12290>>

\* "學習 • 文件 • model • 策略 • 知識\n"
FragKeywordLine ==
  <<23416, 32722, 32, 8226, 32, 25991, 20214, 32, 8226, 32, 109, 111, 100,
    101, 108, 32, 8226, 32, 31574, 30053, 32, 8226, 32, 30693, 35672, 10>>

Fragments ==
  {FragSmartHeader, FragKeywordsHeader, FragFilesHeader,
   FragImportant, FragPlain, FragKeywordLine}

SummaryInputs ==
  {Concat(fs) : fs \in UNION {[1..n -> Fragments] : n \in 0..MaxFrags}}

InitConcepts ==
  /\ store = EmptyStore
  /\ nextId = 1
  /\ now = 0
  /\ call \in {[op |-> "extractConceptsFromAnalysis", analysisText |-> t,
                contentText |-> <<>>] : t \in SummaryInputs}
  /\ resp = NoResp

CallExtractConcepts ==
  /\ call.op = "extractConceptsFromAnalysis"
  /\ resp = NoResp
  /\ resp' = [op |-> "extractConceptsFromAnalysis",
              value |-> extractConceptsFromAnalysis(call.analysisText, call.contentText)]
  /\ UNCHANGED <<store, nextId, now, call>>

NextConcepts == CallExtractConcepts

SpecConcepts == InitConcepts /\ [][NextConcepts]_vars

Returned == resp.op = "extractConceptsFromAnalysis"

Sources(concepts) == [k \in 1..Len(concepts) |-> concepts[k].source]

\* A prefix of at most 3 smart_summary concepts and then at most 4 keywords
\* concepts.
IsSectionList(concepts) ==
  \E k \in 0..Min({3, Len(concepts)}) :
    /\ Len(concepts) - k <= 4
    /\ \A i \in 1..Len(concepts) :
         /\ i <= k => concepts[i].source = "smart_summary"
         /\ i > k => concepts[i].source = "keywords"

\* C1: for every summary text extractConceptsFromAnalysis returns at least 1
\* and at most 5 concept records, and a list that holds a concept of a section
\* is at most 3 smart_summary concepts followed by at most 4 keywords
\* concepts, cut to the first 5.
C1_ConceptCount ==
  Returned =>
    /\ Len(resp.value) >= 1
    /\ Len(resp.value) <= 5
    /\ \A i \in 1..Len(resp.value) :
         DOMAIN resp.value[i] = {"concept", "importance", "source"}
    /\ (\E i \in 1..Len(resp.value) :
          resp.value[i].source \in {"smart_summary", "keywords"})
         => IsSectionList(resp.value)

\* Reached: a summary whose sections hold 3 sentences and 3 keywords or more,
\* answered with the first 5 of them.
C1_Witness ==
  /\ Returned
  /\ Len(resp.value) = 5
  /\ Sources(resp.value) =
       <<"smart_summary", "smart_summary", "smart_summary", "keywords", "keywords">>
  /\ Len(KeywordConcepts(SectionContent(call.analysisText, WordCoreKeywords))) > 2

\* C2: for the empty summary, and for a summary in which neither the sections
\* nor the generic sentences give a concept, extractConceptsFromAnalysis
\* returns the 3 fallback concepts, source fallback, in the order
\* FallbackConcept1 (high), FallbackConcept2 (medium), FallbackConcept3
\* (medium).
C2_Fallback ==
  Returned =>
    LET t == call.analysisText
        noConcept ==
          /\ SmartSummaryConcepts(SectionContent(t, WordSmartSummary)) = <<>>
          /\ KeywordConcepts(SectionContent(t, WordCoreKeywords)) = <<>>
          /\ FilteredConcepts(t) = <<>>
    IN (t = <<>> \/ noConcept) =>
         resp.value =
           <<[concept |-> FallbackConcept1, importance |-> "high", source |-> "fallback"],
             [concept |-> FallbackConcept2, importance |-> "medium", source |-> "fallback"],
             [concept |-> FallbackConcept3, importance |-> "medium", source |-> "fallback"]>>

\* Reached: a summary that is not empty and gives no concept, answered with
\* the fallback concepts.
C2_Witness ==
  /\ Returned
  /\ call.analysisText # <<>>
  /\ Len(resp.value) = 3
  /\ \A i \in 1..3 : resp.value[i].source = "fallback"

----------------------------------------------------------------------------
(* The Heuristic Analyzer's report read by the Concept Extractor *)

\* uploads of 1..MaxDocs documents
MaxDocs == 2

\* "report.txt"
NameReport ==
  <<114, 101, 112, 111, 114, 116, 46, 116, 120, 116>>

\* The documents of an upload: text files, one of them with sentences the
\* extractor takes for important, and a PDF that does not decode.
Documents ==
  {File(NameHello, TextHello, TRUE),
   File(NameNotes, TextNotes, TRUE),
   File(NameReport, FragImportant, TRUE),
   File(NameScan, <<>>, FALSE)}

DocumentSets == UNION {[1..n -> Documents] : n \in 1..MaxDocs}

\* The summarization fails, or answers in English, or answers with a
\* sentence the extractor takes for important.
ReportHfOutcomes == {HfFails, HfAnswers(HfSummary), HfAnswers(TextNotes)}

InitReport ==
  /\ store = EmptyStore
  /\ nextId = 1
  /\ now = 0
  /\ call \in {[op |-> "performAIAnalysis", combinedText |-> CombinedText(files),
                fileNames |-> FileNames(files), hf |-> hf] :
                 files \in DocumentSets, hf \in ReportHfOutcomes}
  /\ resp = NoResp

\* lines 1829: the report of the upload
CallPerformAIAnalysis ==
  /\ call.op = "performAIAnalysis"
  /\ resp = NoResp
  /\ resp' = [op |-> "performAIAnalysis",
              value |-> performAIAnalysis(call.combinedText, call.fileNames,
                                          call.hf, now)]
  /\ UNCHANGED <<store, nextId, now, call>>

\* line 1977: the concepts of the report
CallExtractFromReport ==
  /\ resp.op = "performAIAnalysis"
  /\ resp' = [op |-> "extractConceptsFromAnalysis", report |-> resp.value,
              value |-> extractConceptsFromAnalysis(resp.value, call.combinedText)]
  /\ UNCHANGED <<store, nextId, now, call>>

NextReport == CallPerformAIAnalysis \/ CallExtractFromReport

SpecReport == InitReport /\ [][NextReport]_vars

\* What a report holds between one of its headers and the next.
ReportSection(report, header, nextHeader) ==
  LET from == IndexOfFrom(report, header, 1) + Len(header)
      to == IndexOfFrom(report, nextHeader, from) - 1
  IN SubSeq(report, from, to)

\* C3: of a report of performAIAnalysis the extractor finds the smart-summary
\* section and the core-keywords section: when the first holds a sentence that
\* qualifies or the second a keyword that is no stopword, every concept
\* returned has source smart_summary or keywords.
C3_HeadersAreAContract ==
  (resp.op = "extractConceptsFromAnalysis" /\ call.op = "performAIAnalysis") =>
    LET summary == ReportSection(resp.report, ReportSmartSummary, ReportKeyPoints)
        keywords == ReportSection(resp.report, ReportKeywords, ReportCategories)
    IN (SmartSummaryConcepts(summary) # <<>> \/ KeywordConcepts(keywords) # <<>>)
         => \A i \in 1..Len(resp.value) :
              resp.value[i].source \in {"smart_summary", "keywords"}

----------------------------------------------------------------------------
(* POST /card-notes/create-connections *)

\* requests of 0..MaxCards cards
MaxCards == 5

\* "學習方法"
TitleLearning ==
  <<23416, 32722, 26041, 27861>>

\* "[1,2]"
TitleList ==
  <<91, 49, 44, 50, 93>>

\* The cards of a request: one with a title, one without, and one whose title
\* holds brackets.
Cards == {[title |-> TitleLearning], [title |-> <<>>], [title |-> TitleList]}

CardLists == UNION {[1..n -> Cards] : n \in 0..MaxCards}

InitConnections ==
  /\ store = EmptyStore
  /\ nextId = 1
  /\ now = 0
  /\ call \in {[op |-> "POST /card-notes/create-connections", cards |-> cards,
                hf |-> hf] : cards \in CardLists, hf \in HfOutcomes}
  /\ resp = NoResp

\* POST /card-notes/create-connections, lines 2031-2087
CreateConnections ==
  /\ call.op = "POST /card-notes/create-connections"
  /\ resp = NoResp
  /\ resp' = createConnectionsResponse(call.cards, call.hf, now)
  /\ UNCHANGED <<store, nextId, now, call>>

NextConnections == CreateConnections

SpecConnections == InitConnections /\ [][NextConnections]_vars

\* The title a card counts with.
TitleOf(card) == IF card.title = <<>> THEN UnknownConcept ELSE card.title

\* The pairs (from, to) the claim lists for the titles t[1..n].
ClaimedPairs(t) ==
  IF Len(t) < 2 THEN <<>>
  ELSE [i \in 1..Min({Len(t) - 1, 3}) |-> <<t[i], t[i + 1]>>]
         \o (IF Len(t) >= 3 THEN <<<<t[1], t[Len(t)]>>>> ELSE <<>>)

\* C5: for n cards with titles t the response of create-connections holds no
\* connection when n < 2, else the connections (t[i], t[i+1]) of the first
\* min(n-1, 3) neighbours in their order and then (t[1], t[n]) if and only if
\* n >= 3; a card without a title counts as UnknownConcept.
C5_ExactConnections ==
  (call.op = "POST /card-notes/create-connections" /\ resp # NoResp) =>
    /\ resp.json = "object"
    /\ resp.body.success
    /\ Len(resp.body.data) = Len(ClaimedPairs(Map(call.cards, TitleOf)))
    /\ \A i \in 1..Len(resp.body.data) :
         /\ DOMAIN resp.body.data[i] = {"from", "to", "relationship"}
         /\ <<resp.body.data[i].from, resp.body.data[i].to>>
              = ClaimedPairs(Map(call.cards, TitleOf))[i]

----------------------------------------------------------------------------
(* generateCardFromConcept applied to the concepts of the Concept Extractor *)

\* The summaries of the record the cards are made of: edited summaries with
\* the two sections, the names of their sentences holding "(", "[", "+" and
\* "?", the empty summary, and a report of the Heuristic Analyzer.
CardSummaries ==
  {SummaryPlain, SummaryOpenGroup, SummaryGroup, SummaryOpenClass, SummaryPlus,
   SummaryQuestion, SummaryExample, <<>>,
   AnalysisOf(<<File(NameHello, TextHello, TRUE)>>, HfFails, 0).aiSummary}

\* The analysisId of a request: none (written 0), that of the record, and
\* one that has no record.
CardAnalysisIds == {0, 1, 2}

InitCards ==
  /\ \E summary \in CardSummaries :
       store = Insert(EmptyStore, 1, summary, TextHello, 0)
  /\ nextId = 2
  /\ now = 0
  /\ call = [op |-> "none"]
  /\ resp = NoResp

\* extractConceptsFromAnalysis applied to the record
ExtractForCards ==
  /\ call.op = "none"
  /\ call' = [op |-> "extractConceptsFromAnalysis",
              concepts |-> extractConceptsFromAnalysis(store[1].analysis_summary,
                                                       store[1].content_text)]
  /\ UNCHANGED <<store, nextId, now, resp>>

\* generateCardFromConcept applied to one of the concepts
GenerateCard ==
  /\ call.op # "none"
  /\ \E k \in 1..Len(call.concepts), analysisId \in CardAnalysisIds,
        storeFails \in BOOLEAN :
       /\ call' = [op |-> "generateCardFromConcept", concepts |-> call.concepts,
                   concept |-> call.concepts[k], analysisId |-> analysisId,
                   storeFails |-> storeFails]
       /\ resp' = generateCardFromConcept(call.concepts[k], analysisId, store,
                                          storeFails)
  /\ UNCHANGED <<store, nextId, now>>

NextCards ==
  \/ ExtractForCards
  \/ GenerateCard

SpecCards == InitCards /\ [][NextCards]_vars

----------------------------------------------------------------------------
(* The page's card-note pipeline: generateCardNotes and processCardNotes *)

\* The requests of the three stages, in the order of lines 1649, 1663, 1677
StageUrls ==
  <<"/card-notes/extract-concepts", "/card-notes/create-cards",
    "/card-notes/create-connections">>

\* The percentage updateProgress is given before the request of a stage
StagePercentage == <<33, 66, 100>>

\* fetch rejects, or the body of the response is no JSON
ReplyRejected ==
  [parsed |-> FALSE, success |-> FALSE, hasData |-> FALSE, data |-> <<>>]

\* The JSON of a response: its success, and its data when it has one
ReplyJson(success, hasData, data) ==
  [parsed |-> TRUE, success |-> success, hasData |-> hasData, data |-> data]

\* The data an endpoint answers with.
StageData ==
  <<FallbackConcepts,
    <<Card(FallbackConcept1, FallbackConcept1 \o ExplanationTail,
           ExampleHead \o FallbackConcept1 \o ExampleTail, Suggestion5)>>,
    <<Connection(FallbackConcept1, FallbackConcept2, <<>>)>>>>

\* The replies a stage can get: none that can be read, {success: false},
\* {success: true} without data, with an empty array and with records.
StageReplies(stage) ==
  {ReplyRejected,
   ReplyJson(FALSE, FALSE, <<>>),
   ReplyJson(TRUE, FALSE, <<>>),
   ReplyJson(TRUE, TRUE, <<>>),
   ReplyJson(TRUE, TRUE, StageData[stage])}

\* reply.data || []
DataOrEmpty(reply) == IF reply.hasData THEN reply.data ELSE <<>>

\* A test that lets every reply that was read pass.
StageFailsUnreadOnly(reply) == ~reply.parsed

\* lines 1649-1658, 1663-1672, 1677-1686: the await of fetch or of json()
\* throws, or the test of success does
StageFails(reply) == ~reply.parsed \/ ~reply.success

\* The body of the request of a stage, lines 1652, 1666, 1680
StageBody(stage, id, replies) ==
  IF stage = 1 THEN [analysisId |-> id]
  ELSE IF stage = 2 THEN [concepts |-> DataOrEmpty(replies[1]), analysisId |-> id]
  ELSE [cards |-> DataOrEmpty(replies[2])]

InitPipeline ==
  /\ store = EmptyStore
  /\ nextId = 1
  /\ now = 0
  /\ call \in {[op |-> "processCardNotes", id |-> id, pc |-> "idle", stage |-> 0,
                replies |-> <<>>, events |-> <<>>, percentage |-> 0,
                progress |-> "none", content |-> "none", downloadBtn |-> "none",
                shown |-> "nothing"] : id \in RequestIds}
  /\ resp = NoResp

\* generateCardNotes, lines 1629-1641, and processCardNotes up to its first
\* await, lines 1643-1647
GenerateCardNotes ==
  /\ call.op = "processCardNotes"
  /\ call.pc = "idle"
  /\ call' = [call EXCEPT !.pc = "sleep", !.stage = 1,
                          !.percentage = StagePercentage[1],
                          !.progress = "block", !.content = "none",
                          !.downloadBtn = "none"]
  /\ UNCHANGED <<store, nextId, now, resp>>

\* The sleep of a stage is over and its request is issued.
IssueRequest ==
  /\ call.op = "processCardNotes"
  /\ call.pc = "sleep"
  /\ call' = [call EXCEPT
                !.pc = "fetch",
                !.events = Append(@, [type |-> "request", stage |-> call.stage,
                                      url |-> StageUrls[call.stage],
                                      body |-> StageBody(call.stage, call.id,
                                                         call.replies)])]
  /\ UNCHANGED <<store, nextId, now, resp>>

\* The reply of a stage has arrived: lines 1655-1658 and on to the next
\* await, displayCardNotes (lines 1710-1752) after the third stage, and the
\* catch of lines 1691-1697 when the stage fails.
ReceiveReply ==
  /\ call.op = "processCardNotes"
  /\ call.pc = "fetch"
  /\ \E reply \in StageReplies(call.stage) :
       /\ resp' = reply
       /\ IF StageFails(reply)
          THEN call' = [call EXCEPT
                          !.pc = "done",
                          !.events = Append(@, [type |-> "response",
                                                stage |-> call.stage, ok |-> FALSE]),
                          !.progress = "none", !.content = "block",
                          !.shown = "failure"]
          ELSE IF call.stage < 3
          THEN call' = [call EXCEPT
                          !.pc = "sleep", !.stage = @ + 1,
                          !.replies = Append(@, reply),
                          !.events = Append(@, [type |-> "response",
                                                stage |-> call.stage, ok |-> TRUE]),
                          !.percentage = StagePercentage[call.stage + 1]]
          ELSE call' = [call EXCEPT
                          !.pc = "done",
                          !.replies = Append(@, reply),
                          !.events = Append(@, [type |-> "response",
                                                stage |-> call.stage, ok |-> TRUE]),
                          !.progress = "none", !.content = "block",
                          !.downloadBtn = "inline-block", !.shown = "cards"]
  /\ UNCHANGED <<store, nextId, now>>

NextPipeline ==
  \/ GenerateCardNotes
  \/ IssueRequest
  \/ ReceiveReply

SpecPipeline == InitPipeline /\ [][NextPipeline]_vars

----------------------------------------------------------------------------
(* The page's card-notes modal with more than one run of processCardNotes *)

MaxRuns == 2

\* The ids of the analyses listed in the page.
ListedIds == {1, 2}

Run(id, stage, pc) == [id |-> id, stage |-> stage, pc |-> pc]

\* The page with its modal closed, lines 1270-1296 and 1628: nothing in
\* cardNotesContent (shown 0), currentCardNotesData '' (markdown 0), no run
\* of processCardNotes, no analysis requested yet (requested 0).  shown and
\* markdown hold the id of the analysis whose cards they were made of,
\* shown -1 when the content is the failure text.
InitModal ==
  /\ store = EmptyStore
  /\ nextId = 1
  /\ now = 0
  /\ call = [op |-> "cardNotesModal", modal |-> "none", progress |-> "none",
             content |-> "none", downloadBtn |-> "none", percentage |-> 0,
             shown |-> 0, markdown |-> 0, requested |-> 0, runs |-> <<>>]
  /\ resp = NoResp

\* generateCardNotes(id), lines 1630-1641, and processCardNotes up to its
\* first await, lines 1643-1647: a click on the card-notes button of a
\* listed analysis, which the open modal covers
GenerateCardNotesFor ==
  \E id \in ListedIds :
    /\ call.op = "cardNotesModal"
    /\ call.modal = "none"
    /\ Len(call.runs) < MaxRuns
    /\ call' = [call EXCEPT !.modal = "block", !.progress = "block",
                            !.content = "none", !.downloadBtn = "none",
                            !.percentage = StagePercentage[1],
                            !.requested = id,
                            !.runs = Append(@, Run(id, 1, "sleep"))]
    /\ UNCHANGED <<store, nextId, now, resp>>

\* closeCardNotesModal, lines 1787-1789
CloseCardNotesModal ==
  /\ call.op = "cardNotesModal"
  /\ call.modal = "block"
  /\ call' = [call EXCEPT !.modal = "none"]
  /\ UNCHANGED <<store, nextId, now, resp>>

\* The sleep of a run's stage is over and its request is issued.
RunIssuesRequest ==
  \E k \in 1..Len(call.runs) :
    /\ call.op = "cardNotesModal"
    /\ call.runs[k].pc = "sleep"
    /\ call' = [call EXCEPT !.runs[k].pc = "fetch"]
    /\ UNCHANGED <<store, nextId, now, resp>>

\* The reply of a run's stage has arrived, lines 1655-1698: on to the next
\* stage with updateProgress, displayCardNotes and generateMarkdownContent
\* after the third, the catch when the stage failed.
RunReceivesReply ==
  \E k \in 1..Len(call.runs), ok \in BOOLEAN :
    /\ call.op = "cardNotesModal"
    /\ call.runs[k].pc = "fetch"
    /\ call' =
         IF ~ok
         THEN [call EXCEPT !.runs[k].pc = "done", !.progress = "none",
                           !.shown = -1, !.content = "block"]
         ELSE IF call.runs[k].stage < 3
         THEN [call EXCEPT !.runs[k].pc = "sleep", !.runs[k].stage = @ + 1,
                           !.percentage = StagePercentage[call.runs[k].stage + 1]]
         ELSE [call EXCEPT !.runs[k].pc = "done", !.progress = "none",
                           !.shown = call.runs[k].id, !.content = "block",
                           !.downloadBtn = "inline-block",
                           !.markdown = call.runs[k].id]
    /\ UNCHANGED <<store, nextId, now, resp>>

NextModal ==
  \/ GenerateCardNotesFor
  \/ CloseCardNotesModal
  \/ RunIssuesRequest
  \/ RunReceivesReply

SpecModal == InitModal /\ [][NextModal]_vars

----------------------------------------------------------------------------
(* One POST /analyze request, step by step *)

\* a request uploads 0..MaxUploads files
MaxUploads == 2

\* "book.epub"
NameBook ==
  <<98, 111, 111, 107, 46, 101, 112, 117, 98>>

\* "photo.PNG"
NamePhoto ==
  <<112, 104, 111, 116, 111, 46, 80, 78, 71>>

\* "Chapter one."
TextChapterOne ==
  <<67, 104, 97, 112, 116, 101, 114, 32, 111, 110, 101, 46>>

\* "Chapter two."
TextChapterTwo ==
  <<67, 104, 97, 112, 116, 101, 114, 32, 116, 119, 111, 46>>

\* "  Hello world from a photo \n"
TextOcr ==
  <<32, 32, 72, 101, 108, 108, 111, 32, 119, 111, 114, 108, 100, 32, 102,
    114, 111, 109, 32, 97, 32, 112, 104, 111, 116, 111, 32, 10>>

\* "Invalid file"
MessageBroken ==
  <<73, 110, 118, 97, 108, 105, 100, 32, 102, 105, 108, 101>>

Upload(originalname, text, decodes, message, flow) ==
  [originalname |-> originalname, text |-> text, decodes |-> decodes,
   message |-> message, flow |-> flow]

Chapter(text, err) == [text |-> text, err |-> err]

\* The files of an upload: a text file; a PDF whose decoder throws; an EPUB
\* whose reader emits error, one of two chapters and one of none; an image
\* the OCR reads and one it fails on.
UploadFiles ==
  {Upload(NameHello, TextHello, TRUE, <<>>, <<>>),
   Upload(NameScan, <<>>, FALSE, MessageBroken, <<>>),
   Upload(NameBook, <<>>, FALSE, MessageBroken, <<>>),
   Upload(NameBook, <<>>, TRUE, <<>>,
          <<Chapter(TextChapterOne, FALSE), Chapter(TextChapterTwo, FALSE)>>),
   Upload(NameBook, <<>>, TRUE, <<>>, <<>>),
   Upload(NamePhoto, TextOcr, TRUE, <<>>, <<>>),
   Upload(NamePhoto, <<>>, FALSE, MessageBroken, <<>>)}

UploadRequests == UNION {[1..n -> UploadFiles] : n \in 0..MaxUploads}

\* The handler has the request; multer has written a temporary file for
\* every uploaded file (temp); ids below nextId were assigned before.
InitUpload ==
  /\ store = EmptyStore
  /\ nextId \in 1..MaxIds
  /\ now = 0
  /\ call \in {[op |-> "POST /analyze", files |-> files, hf |-> hf,
                storeFails |-> storeFails, isPostgres |-> isPostgres,
                pc |-> "received", i |-> 1,
                promise |-> Pending, values |-> <<>>, combinedText |-> <<>>,
                fileNames |-> <<>>, events |-> <<>>, temp |-> 1..Len(files)] :
                 files \in UploadRequests, hf \in HfOutcomes,
                 storeFails \in BOOLEAN, isPostgres \in BOOLEAN}
  /\ resp = NoResp

\* lines 1813-1819
ReceiveUpload ==
  /\ call.op = "POST /analyze"
  /\ call.pc = "received"
  /\ IF Len(call.files) = 0
     THEN /\ resp' = Failure(ErrNoFiles)
          /\ call' = [call EXCEPT !.pc = "done"]
     ELSE /\ resp' = resp
          /\ call' = [call EXCEPT !.pc = "extract"]
  /\ UNCHANGED <<store, nextId, now>>

\* line 1823: extractTextFromFile is called for file i
StartExtract ==
  /\ call.pc = "extract"
  /\ \E promise \in ExtractOutcomes(call.files[call.i]) :
       call' = [call EXCEPT !.pc = "extracting", !.promise = promise,
                            !.events = Append(@, <<"start", call.i>>)]
  /\ UNCHANGED <<store, nextId, now, resp>>

\* A block that leaves the name of its file out.
AppendBlockNameless(combinedText, originalname, text) ==
  combinedText \o DelimiterOpen \o DelimiterClose \o text

\* line 1824: the block of a file
AppendBlock(combinedText, originalname, text) ==
  combinedText \o DelimiterOpen \o originalname \o DelimiterClose \o text

\* lines 1823-1826 when the promise resolves, lines 1850-1853 when it rejects
SettleExtract ==
  /\ call.pc = "extracting"
  /\ call.promise.state # "pending"
  /\ IF call.promise.state = "resolved"
     THEN /\ call' = [call EXCEPT
                 !.pc = IF call.i = Len(call.files) THEN "analyze" ELSE "extract",
                 !.i = @ + 1,
                 !.values = Append(@, call.promise.value),
                 !.combinedText =
                    AppendBlock(@, call.files[call.i].originalname, call.promise.value),
                 !.fileNames = Append(@, call.files[call.i].originalname),
                 !.events = Append(@, <<"end", call.i>>)]
          /\ resp' = resp
     ELSE /\ call' = [call EXCEPT !.pc = "done",
                                  !.events = Append(@, <<"end", call.i>>)]
          /\ resp' = Failure(call.promise.message)
  /\ UNCHANGED <<store, nextId, now>>

\* The names and values of the blocks a request can append: of every file
\* and every value its promise can resolve to.
UploadBlocks ==
  UNION {{<<file.originalname, p.value>> :
            p \in {q \in ExtractOutcomes(file) : q.state = "resolved"}} :
           file \in UploadFiles}

\* lines 1818-1829 for every combinedText and fileNames a request can come
\* to and every outcome of the summarization, computed once.
UploadAnalyses ==
  {[combinedText |-> Concat([k \in 1..Len(bs) |-> AppendBlock(<<>>, bs[k][1], bs[k][2])]),
    fileNames |-> [k \in 1..Len(bs) |-> bs[k][1]],
    hf |-> hf,
    aiSummary |->
      performAIAnalysis(
        Concat([k \in 1..Len(bs) |-> AppendBlock(<<>>, bs[k][1], bs[k][2])]),
        [k \in 1..Len(bs) |-> bs[k][1]], hf, 0)] :
     bs \in UNION {[1..n -> UploadBlocks] : n \in 1..MaxUploads},
     hf \in HfOutcomes}

UploadAnalysisOf(combinedText, fileNames, hf) ==
  CHOOSE a \in UploadAnalyses :
    a.combinedText = combinedText /\ a.fileNames = fileNames /\ a.hf = hf

\* A run that does not read the row RETURNING id gives.
InsertResultUnreconciled(isPostgres, id) ==
  [lastID |-> IF isPostgres THEN -1 ELSE id, changes |-> 1]

\* lines 140-156 for the INSERT of lines 1833-1836 that is given id: under
\* PostgreSQL the id of the row RETURNING id gives, or null (written -1)
\* if that is 0; under SQLite this.lastID.
InsertResult(isPostgres, id) ==
  [lastID |-> IF isPostgres THEN (IF id # 0 THEN id ELSE -1) ELSE id,
   changes |-> 1]

\* lines 1829-1848: the analysis, the insert, the response, and fs.unlink
\* called for every temporary file
StoreUpload ==
  /\ call.pc = "analyze"
  /\ call' = [call EXCEPT !.pc = "cleanup"]
  /\ IF call.storeFails
     THEN /\ resp' = Failure(ErrSaveFailed)
          /\ UNCHANGED <<store, nextId>>
     ELSE /\ store' = Insert(store, nextId,
                             UploadAnalysisOf(call.combinedText, call.fileNames,
                                              call.hf).aiSummary,
                             call.combinedText, now)
          /\ nextId' = nextId + 1
          /\ resp' = Object([success |-> TRUE,
                             id |-> InsertResult(call.isPostgres, nextId).lastID])
  /\ UNCHANGED now

\* lines 1845-1847: one fs.unlink completes
UnlinkTemp ==
  /\ call.pc = "cleanup"
  /\ \E f \in call.temp : call' = [call EXCEPT !.temp = @ \ {f}]
  /\ UNCHANGED <<store, nextId, now, resp>>

NextUpload ==
  \/ ReceiveUpload
  \/ StartExtract
  \/ SettleExtract
  \/ StoreUpload
  \/ UnlinkTemp

SpecUpload == InitUpload /\ [][NextUpload]_vars

\* Every step of the handler that can be taken is taken.
SpecUploadFair == SpecUpload /\ WF_vars(NextUpload)

\* The extensions extractTextFromFile has a case for.
SupportedExtensions ==
  ReadExtensions \cup DecoderExtensions \cup OcrExtensions \cup {ExtEpub}

\* C11: the promise extractTextFromFile returns for a file of a supported
\* extension resolves, whatever the decoder does, and resolves to the text
\* extracted or to a placeholder that holds the file's original name.
C11_NeverRejects ==
  (/\ call.op = "POST /analyze"
   /\ call.pc = "extracting"
   /\ toLowerCase(extname(call.files[call.i].originalname)) \in SupportedExtensions) =>
    /\ call.promise.state = "resolved"
    /\ \/ call.files[call.i].decodes
       \/ Includes(call.promise.value, call.files[call.i].originalname)

\* The extraction of every file of the request has settled.
ExtractionOver ==
  /\ call.op = "POST /analyze"
  /\ Len(call.files) > 0
  /\ call.pc \in {"analyze", "cleanup", "done"}

\* C12: once the extraction of a request that uploaded a file is over, every
\* temporary file of the request is deleted in the end, whether the
\* extraction gave text or an error and whether the insert succeeds or fails.
C12_TempFilesDeleted == ExtractionOver ~> (call.temp = {})

\* C13: POST /analyze answers {success: true, id} exactly when the request
\* inserted one record, and id is the id the store gave it, under either
\* engine, so that a GET of the id returns the record; a request answered
\* {success: false, error} inserted none, and none is inserted before the
\* answer.
C13_SuccessIffInserted ==
  call.op = "POST /analyze" =>
    IF resp # NoResp /\ resp.body.success
    THEN /\ DOMAIN resp.body = {"success", "id"}
         /\ DOMAIN store = {resp.body.id}
         /\ resp.body.id = nextId - 1
         /\ store[resp.body.id].id = resp.body.id
         /\ store[resp.body.id].content_text = call.combinedText
         /\ getAnalysisResponse(store, resp.body.id, FALSE) = Object(store[resp.body.id])
    ELSE /\ store = EmptyStore
         /\ resp # NoResp => DOMAIN resp.body = {"success", "error"}

\* Reached: under PostgreSQL a request of two files answered with the id 2
\* of the record it inserted.
C13_Witness ==
  /\ call.op = "POST /analyze"
  /\ call.isPostgres
  /\ Len(call.files) = 2
  /\ resp # NoResp
  /\ resp.body.success
  /\ resp.body.id = 2
  /\ 2 \in DOMAIN store

\* The values the promise of extractTextFromFile(file) can resolve to.
ResolvedValues(file) ==
  {p.value : p \in {q \in ExtractOutcomes(file) : q.state = "resolved"}}

\* C14: the extractions of a request start and end one after another in
\* upload order, the extraction of a file starting after that of the file
\* before it has ended, and the content_text stored is the concatenation in
\* upload order of one block per file: a delimiter that holds the file's
\* original name, then the text or placeholder its extraction gave.
C14_SequentialBlocks ==
  call.op = "POST /analyze" =>
    /\ \A k \in 1..Len(call.events) :
         call.events[k] = IF k % 2 = 1 THEN <<"start", (k + 1) \div 2>>
                          ELSE <<"end", k \div 2>>
    /\ (resp # NoResp /\ resp.body.success) =>
         /\ Len(call.values) = Len(call.files)
         /\ \A k \in 1..Len(call.files) :
              call.values[k] \in ResolvedValues(call.files[k])
         /\ store[resp.body.id].content_text =
              Concat([k \in 1..Len(call.files) |->
                        DelimiterOpen \o call.files[k].originalname
                          \o DelimiterClose \o call.values[k]])

\* Reached: the record of a PDF whose decoder threw and of a text file, with
\* the placeholder of the first and the text of the second.
C14_Witness ==
  /\ call.op = "POST /analyze"
  /\ resp # NoResp
  /\ resp.body.success
  /\ call.events = <<<<"start", 1>>, <<"end", 1>>, <<"start", 2>>, <<"end", 2>>>>
  /\ call.fileNames = <<NameScan, NameHello>>
  /\ store[resp.body.id].content_text =
       DelimiterOpen \o NameScan \o DelimiterClose
         \o ParseFailedOpen \o NameScan \o BracketClose
         \o DelimiterOpen \o NameHello \o DelimiterClose \o TextHello

\* C15: the analysis_summary of the record a successful POST /analyze has
\* stored holds the smart-summary heading, whether the summarization
\* answered or failed and the local summary was used.
C15_SummaryHeading ==
  (call.op = "POST /analyze" /\ resp # NoResp /\ resp.body.success) =>
    Includes(store[resp.body.id].analysis_summary, WordSmartSummary)

\* Reached: a record stored while the summarization failed, its report
\* holding the heading.
C15_Witness ==
  /\ call.op = "POST /analyze"
  /\ resp # NoResp
  /\ resp.body.success
  /\ ~call.hf.ok
  /\ Includes(store[resp.body.id].analysis_summary, ReportSmartSummary)

----------------------------------------------------------------------------
(* The endpoints of the Analysis Store *)

\* C4: POST /card-notes/extract-concepts for an id in the store responds
\* {success: true, data} with data a list of at most 5 Concept records, each a
\* concept with an importance high or medium and a source smart_summary,
\* keywords, filtered_analysis or fallback, whatever the stored summary holds.
C4_ConceptRecords ==
  (/\ call.op = "POST /card-notes/extract-concepts"
   /\ ~call.storeFails
   /\ call.analysisId \in DOMAIN store) =>
    /\ resp.json = "object"
    /\ resp.body.success
    /\ Len(resp.body.data) <= 5
    /\ \A i \in 1..Len(resp.body.data) :
         /\ DOMAIN resp.body.data[i] = {"concept", "importance", "source"}
         /\ resp.body.data[i].importance \in {"high", "medium"}
         /\ resp.body.data[i].source \in
              {"smart_summary", "keywords", "filtered_analysis", "fallback"}

\* C6: a PUT /analyses/:id of an existing record sets analysis_summary and
\* content_text to the values sent and keeps id and created_at, and a GET of
\* that id that follows the PUT returns the record with these values.
C6_PutGetRoundTrip ==
  [][/\ (/\ call'.op = "PUT /analyses/:id"
         /\ ~call'.storeFails
         /\ call'.id \in DOMAIN store) =>
          /\ store'[call'.id].analysis_summary = call'.body.analysis_summary
          /\ store'[call'.id].content_text = call'.body.content_text
          /\ store'[call'.id].id = store[call'.id].id
          /\ store'[call'.id].created_at = store[call'.id].created_at
     /\ (/\ call.op = "PUT /analyses/:id"
         /\ ~call.storeFails
         /\ call.id \in DOMAIN store
         /\ call'.op = "GET /analyses/:id"
         /\ ~call'.storeFails
         /\ call'.id = call.id) =>
          /\ resp'.json = "object"
          /\ resp'.body = store[call.id]
          /\ resp'.body.id = call.id
          /\ resp'.body.analysis_summary = call.body.analysis_summary
          /\ resp'.body.content_text = call.body.content_text
    ]_vars

\* Reached: a GET that returns a record with the texts of an edit, under the
\* id and the created_at of its insert.
C6_Witness ==
  /\ call.op = "GET /analyses/:id"
  /\ ~call.storeFails
  /\ call.id \in DOMAIN store
  /\ resp.body.analysis_summary = EditedSummary
  /\ resp.body.content_text = EditedContent
  /\ resp.body.id = call.id
  /\ resp.body.created_at = 0
  /\ resp.body.updated_at = 1

\* C7: after a PUT /analyses/:id of an existing record its updated_at is later
\* than its created_at, also when the PUT comes within the second of the
\* insert.
C7_UpdatedAtLater ==
  (/\ call.op = "PUT /analyses/:id"
   /\ ~call.storeFails
   /\ call.id \in DOMAIN store) =>
    store[call.id].updated_at > store[call.id].created_at

\* The step is a request: the clock does not tick within one.
IsRequest(op) == call'.op = op /\ now' = now

\* C8: a DELETE /analyses/:id of an id that is not in the store answers
\* success false and leaves the store as it is; a GET or a second DELETE of
\* the id right after a DELETE answers success false too.
C8_DeleteMissing ==
  [][/\ (/\ IsRequest("DELETE /analyses/:id")
         /\ ~call'.storeFails
         /\ call'.id \notin DOMAIN store) =>
          /\ resp'.json = "object"
          /\ resp'.body.success = FALSE
          /\ store' = store
     /\ (/\ call.op = "DELETE /analyses/:id"
         /\ ~call.storeFails
         /\ \/ IsRequest("GET /analyses/:id")
            \/ IsRequest("DELETE /analyses/:id")
         /\ ~call'.storeFails
         /\ call'.id = call.id) =>
          /\ resp'.json = "object"
          /\ resp'.body.success = FALSE
          /\ store' = store
    ]_vars

\* Reached: a DELETE answered success false for an id that was assigned
\* before, whose record an earlier DELETE removed.
C8_Witness ==
  /\ call.op = "DELETE /analyses/:id"
  /\ ~call.storeFails
  /\ call.id < nextId
  /\ resp.body.success = FALSE
  /\ store # EmptyStore

\* C9: a GET or a PUT of an id with no record answers success false.
C9_MissingRecord ==
  (/\ call.op \in {"GET /analyses/:id", "PUT /analyses/:id"}
   /\ ~call.storeFails
   /\ call.id \notin DOMAIN store) =>
    resp.body.success = FALSE

StoreBacked ==
  {"POST /analyze", "GET /analyses", "GET /analyses/search", "GET /analyses/:id",
   "PUT /analyses/:id", "DELETE /analyses/:id", "POST /card-notes/extract-concepts"}

\* C10 as claimed: every store-backed endpoint answers a failure of its store
\* operation with {success: false, error}.
C10_AllReportFailure ==
  (call.op \in StoreBacked /\ call.storeFails) =>
    /\ resp.json = "object"
    /\ DOMAIN resp.body = {"success", "error"}
    /\ resp.body.success = FALSE

\* C10: POST /analyze, GET, PUT and DELETE /analyses/:id and POST
\* /card-notes/extract-concepts answer a failure of their store operation
\* with {success: false, error}; GET /analyses and GET /analyses/search
\* answer it with the empty array.
C10_StoreFailure ==
  (call.op \in StoreBacked /\ call.storeFails) =>
    IF call.op \in {"GET /analyses", "GET /analyses/search"}
    THEN resp.json = "array" /\ resp.body = <<>>
    ELSE /\ resp.json = "object"
         /\ DOMAIN resp.body = {"success", "error"}
         /\ resp.body.success = FALSE
         /\ resp.body.error # <<>>

\* Reached: a search whose store operation fails while the store holds a
\* record that matches, answered with the empty array.
C10_Witness ==
  /\ call.op = "GET /analyses/search"
  /\ call.storeFails
  /\ SearchHits(store, call.keyword) # {}
  /\ resp.json = "array"
  /\ resp.body = <<>>

\* The texts a row can hold and the keywords of which one of the two holds
\* the keyword as a substring, the ASCII letters compared without case.
SubstringMatches ==
  {<<texts, keyword>> \in StoredTexts \X SearchKeywords :
     \/ Includes(toLowerCase(texts[1]), toLowerCase(keyword))
     \/ Includes(toLowerCase(texts[2]), toLowerCase(keyword))}

\* C16: the search answers exactly the stored records of which the
\* analysis_summary or the content_text holds the keyword as a substring
\* without regard to case, for the keywords "%" and "_" as for the others.
C16_SearchExact ==
  (call.op = "GET /analyses/search" /\ ~call.storeFails) =>
    {resp.body[k] : k \in 1..Len(resp.body)} =
      {store[i] : i \in {j \in DOMAIN store :
                           <<<<store[j].analysis_summary, store[j].content_text>>,
                             call.keyword>> \in SubstringMatches}}

\* C17: a search with the empty keyword (an absent keyword is read as the
\* empty one, line 1869) answers the rows GET /analyses answers, which are
\* all the rows of the store, whatever the store holds.
C17_EmptyKeywordListsAll ==
  /\ (call.op = "GET /analyses/search" /\ call.keyword = <<>> /\ ~call.storeFails) =>
       {resp.body[k] : k \in 1..Len(resp.body)} = {store[i] : i \in DOMAIN store}
  /\ (call.op = "GET /analyses" /\ ~call.storeFails) =>
       {resp.body[k] : k \in 1..Len(resp.body)} = {store[i] : i \in DOMAIN store}

\* Reached: a search with the empty keyword answered with two records, one
\* of them with an empty content_text.
C17_Witness ==
  /\ call.op = "GET /analyses/search"
  /\ call.keyword = <<>>
  /\ ~call.storeFails
  /\ Len(resp.body) = 2
  /\ \E k \in 1..2 : resp.body[k].content_text = <<>>

\* C18: GET /analyses answers all the stored records, a record inserted
\* later (its id is the greater) before a record inserted earlier, also when
\* the two were inserted within the same tick of the store clock.
C18_NewestFirst ==
  (call.op = "GET /analyses" /\ ~call.storeFails) =>
    /\ {resp.body[k] : k \in 1..Len(resp.body)} = {store[i] : i \in DOMAIN store}
    /\ \A i, j \in 1..Len(resp.body) : i < j => resp.body[i].id > resp.body[j].id

\* C19: generateCardFromConcept throws nothing and gives a card of which
\* title, concept, example and application are strings that are not empty,
\* for every concept of the Concept Extractor (a smart_summary concept with
\* "(", "[", "+" or "?" in its text too) and every analysis summary, found
\* or not.
C19_CardAlways ==
  call.op = "generateCardFromConcept" =>
    /\ ~resp.threw
    /\ resp.card.title # <<>>
    /\ resp.card.concept # <<>>
    /\ resp.card.example # <<>>
    /\ resp.card.application # <<>>

\* The requests among the first n events of the run, in their order.
RequestsIn(events, n) ==
  SelectSeq(SubSeq(events, 1, n), LAMBDA e : e.type = "request")

\* C20: in a run of processCardNotes the requests are issued in the order
\* extract-concepts, create-cards, create-connections, each after the reply
\* of the stage before it has arrived with success true; after a stage that
\* failed no request is issued, and no card result is displayed.
C20_StagesInOrder ==
  call.op = "processCardNotes" =>
    /\ \A k \in 1..Len(RequestsIn(call.events, Len(call.events))) :
         RequestsIn(call.events, Len(call.events))[k].url = StageUrls[k]
    /\ \A p \in 1..Len(call.events) :
         (call.events[p].type = "request" /\ call.events[p].stage > 1) =>
           /\ p > 1
           /\ call.events[p - 1] = [type |-> "response",
                                    stage |-> call.events[p].stage - 1, ok |-> TRUE]
    /\ \A p \in 1..Len(call.events) :
         (call.events[p].type = "response" /\ ~call.events[p].ok) =>
           /\ p = Len(call.events)
           /\ call.shown # "cards"
           /\ call.downloadBtn = "none"
    /\ call.shown = "cards" =>
         /\ Len(call.replies) = 3
         /\ \A k \in 1..3 : call.replies[k].parsed /\ call.replies[k].success

\* Reached: a run of which the second stage failed after the first had
\* succeeded: two requests, the failure shown and no card.
C20_Witness ==
  /\ call.op = "processCardNotes"
  /\ call.pc = "done"
  /\ Len(call.events) = 4
  /\ call.events[2].ok
  /\ call.events[3].url = "/card-notes/create-cards"
  /\ ~call.events[4].ok
  /\ call.shown = "failure"

\* The requests of the three card-note endpoints.
CardNoteOps ==
  {"POST /card-notes/extract-concepts", "POST /card-notes/create-cards",
   "POST /card-notes/create-connections"}

\* C21: a request to extract-concepts, create-cards or create-connections,
\* answered with success or with a failure, leaves the analysis store as it
\* was: the same records, every field of each the same.
C21_StoreUnchanged ==
  [][call'.op \in CardNoteOps => store' = store]_vars

\* Reached: create-cards has answered a failure for the concepts that
\* extract-concepts gave for the record, and the record is as it was
\* inserted.
C21_Witness ==
  /\ call.op = "POST /card-notes/create-cards"
  /\ call.body.isArray
  /\ call.analysisId = 1
  /\ call.body.concepts \in
       {r.data : r \in {q \in ConceptReplies : q.texts[1] = SummaryPlus}}
  /\ resp = Failure(ErrCardsFailed)
  /\ store = Insert(EmptyStore, 1, SummaryPlus, TextHello, 0)

\* C26: when the record of a create-cards request is missing, or its lookup
\* fails, the endpoint answers success true with one card for each
\* submitted concept, in the order of the concepts, each the card that
\* generateCardFromConcept builds from the empty summary.
C26_FailSoftOnMissingRecord ==
  (/\ call.op = "POST /card-notes/create-cards"
   /\ call.body.isArray
   /\ (call.analysisId \notin DOMAIN store \/ call.storeFails))
    => /\ resp.body.success
       /\ Len(resp.body.data) = Len(call.body.concepts)
       /\ \A k \in 1..Len(call.body.concepts) :
            /\ ~LocalCardOf(call.body.concepts[k], <<>>).threw
            /\ resp.body.data[k] = LocalCardOf(call.body.concepts[k], <<>>).card

\* C22: every POST /analyze request, whatever files it uploaded, is in the
\* end answered with a response, a failure of the extraction, the
\* summarization or the store giving a placeholder or an error body and
\* never a request left without one.
C22_EveryRequestAnswered ==
  (call.op = "POST /analyze" /\ call.pc = "received") ~> (resp # NoResp)

\* C23: the text performAIAnalysis hands to the summarization call, and to
\* the local summary, is at most 2000 characters long, whatever the length
\* of the combined text.
C23_InputsAtMostLimit ==
  (call.op = "performAIAnalysis" /\ call.pc = "summarized")
    => Len(call.inputs) <= MaxTextLength

\* The summary the claim C24 describes: the sentences of at least 10
\* characters, the longest first, three at most, joined.
ClaimedLocalSummary(text) ==
  With(SelectSeq(SplitOn(text, {46, 33, 63} \cup SentenceEnd),
                 LAMBDA sentence : Len(Trim(sentence)) >= 10),
       LAMBDA eligible :
         IF eligible = <<>> THEN DefaultLocalSummary
         ELSE Join(Slice(SortDescending(eligible, Len), 3), IdeographicStop))

\* C24: when the summarization call fails the summary is made of the (up to)
\* three longest sentences of the cut text, longest first, taken among the
\* sentences of 10 characters or more, and is the default sentence when
\* there is none.
C24_LocalSummary ==
  (call.op = "performAIAnalysis" /\ call.pc = "summarized" /\ ~call.hf.ok)
    => resp.aiSummary = ClaimedLocalSummary(call.inputs)

\* C25: in every step, a record that is in the store before and after it
\* keeps its id and its created_at, and keeps its updated_at, its
\* analysis_summary and its content_text unless the step is a
\* PUT /analyses/:id on the id of the record.
C25_FieldsChangeByPutOnly ==
  [][\A i \in DOMAIN store \cap DOMAIN store' :
       /\ store'[i].id = store[i].id
       /\ store'[i].created_at = store[i].created_at
       /\ (store'[i] # store[i]) =>
            (call'.op = "PUT /analyses/:id" /\ call'.id = i)]_vars

\* Reached: a PUT on record 1, made a second after its insert, has given it
\* the texts of the request and a later updated_at, and record 2 holds what
\* its insert gave it.
C25_Witness ==
  /\ call.op = "PUT /analyses/:id"
  /\ call.id = 1
  /\ DOMAIN store = {1, 2}
  /\ store[1].analysis_summary = call.body.analysis_summary
  /\ store[1].content_text = call.body.content_text
  /\ store[1].id = 1
  /\ store[1].created_at = 0
  /\ store[1].updated_at = 1
  /\ store[2].updated_at = store[2].created_at
  /\ <<store[2].analysis_summary, store[2].content_text>>
       \in {<<a.aiSummary, a.combinedText>> : a \in Analyses}

\* C29: the id of a newly inserted record is the id of no record inserted
\* before it, deleted or not.  nextId, the next value of the sequence of the
\* id column, never decreases; in every step the id of a record that enters
\* the store is nextId or more, and after the step nextId is above it: so
\* every id given before is below nextId and every id given from now on is
\* not.  An insert replaces no record of the store.
C29_IdsNeverReused ==
  [][/\ nextId' >= nextId
     /\ \A i \in DOMAIN store' \ DOMAIN store : i >= nextId /\ nextId' > i
     /\ \A i \in DOMAIN store' : i < nextId' /\ store'[i].id = i
     /\ \A i \in DOMAIN store \cap DOMAIN store' :
          (DOMAIN store' # DOMAIN store) => store'[i] = store[i]]_vars

\* Reached: record 1 was inserted and deleted, and the insert after that
\* has given its record the id 2.
C29_Witness ==
  /\ call.op = "POST /analyze"
  /\ resp = Object([success |-> TRUE, id |-> 2])
  /\ DOMAIN store = {2}
  /\ store[2].id = 2

\* C27: in the page at most one POST /analyze request is pending at any
\* time, and while one is pending the analyze button is disabled, whatever
\* the user does in between.
C27_OneRequestInFlight ==
  call.op = "page" =>
    /\ Len(call.pending) <= 1
    /\ (Len(call.pending) > 0 => call.disabled)

\* C28: the cards the open modal shows, and the Markdown its download
\* button gives, are those of the analysis whose card notes were requested
\* last: a run of processCardNotes started before for another analysis
\* does not put its cards in their place.
C28_ShownIsRequestedLast ==
  (call.op = "cardNotesModal" /\ call.modal = "block") =>
    /\ (call.content = "block" /\ call.shown > 0) => call.shown = call.requested
    /\ (call.downloadBtn # "none") => call.markdown = call.requested

\* C30: no store operation of a request is run before the initialisation
\* of the store has completed: every statement of a request runs on a
\* connected client, after the CREATE TABLE of init, against a database
\* that has the analyses table.
C30_NoOperationBeforeInit ==
  call.op = "startup" =>
    \A k \in 1..Len(call.log) :
      /\ call.log[k].connected
      /\ call.log[k].initialised
      /\ call.log[k].table
====
